---- MODULE Spec2Model ----
(***************************************************************************)
(* arffutils: ARFF metadata scanning (utils.get_metadata_if_arff),         *)
(* metadata writing (utils.create_metadata_rows), column selection         *)
(* (arffselect.select), merging by key (arffmerge), splitting by key sets *)
(* (arffsplit), the context manager io.io_handler and                      *)
(* utils.split_on_condition.                                               *)
(*                                                                         *)
(* Text is modelled character by character: a string is a sequence of      *)
(* one-character strings, a file is a sequence of lines (each line without *)
(* its terminating newline), and the cursor of a file is the number of     *)
(* lines already consumed.                                                 *)
(***************************************************************************)
EXTENDS Integers, Sequences, FiniteSets, TLC

VARIABLES
    in_file,             \* content of the input stream: sequence of lines
    in_pos,              \* cursor of the input stream (lines consumed)
    caller,              \* who called get_metadata_if_arff: "test" or "select"
    pc,                  \* position in the code
    err,                 \* exception raised ("none" when none)
    line,                \* local `line` of get_metadata_if_arff
    is_arff,             \* result: is_arff
    attr_names,          \* result: attr_names
    attr_lines,          \* result: attr_lines
    all_metadata_lines,  \* result: all_metadata_lines
    next_line,           \* the line the caller reads right after the scan
    rel_name,            \* relation name handed to create_metadata_rows
    col_strs_to_select,  \* select(): requested column specs
    input_csv_delim,     \* select(): delimiter of the input
    output_csv_delim,    \* select(): delimiter of the output
    out_name,            \* `name` attribute of the output stream (NoName if none)
    cols_to_select,      \* select(): resolved integer positions
    out_file,            \* lines written to the output stream so far
    in_rows,             \* records the csv reader has yielded so far
    out_rows,            \* rows handed to the csv writer so far
    args,                \* merge / split: the parsed command line
    first,               \* merge: resolved start of the import range
    last,                \* merge: resolved end of the import range, or None
    add_is_arff,         \* merge: is_arff of the additional csv
    add_attr_lines,      \* merge: attribute lines of the imported columns
    add_data,            \* merge: key -> imported segment, in insertion order
    missing,             \* merge: the placeholder segment
    stderr,              \* merge: warnings printed so far
    key_sets,            \* split: the key sets
    out_files,           \* split: lines written to each output stream
    rmdr_file,           \* split: lines written to the remainder stream
    seekable,            \* whether in_file supports seek
    file_,               \* io_handler: the argument, a path or a file object
    mode,                \* io_handler: the mode argument
    handle,              \* io_handler: the object it yields, or None
    handles,             \* the file objects that exist: kind, mode, closed, text
    lis_,                \* split_on_condition: the list
    pre,                 \* split_on_condition: items before the condition holds
    mid,                 \* split_on_condition: items while it holds
    post,                \* split_on_condition: items after it held
    item                 \* split_on_condition: the item TypeError names, or None

vars == <<in_file, in_pos, caller, pc, err, line, is_arff, attr_names,
          attr_lines, all_metadata_lines, next_line, rel_name, col_strs_to_select,
          input_csv_delim, output_csv_delim, out_name, cols_to_select,
          out_file, in_rows, out_rows, args, first, last, add_is_arff,
          add_attr_lines, add_data, missing, stderr, key_sets, out_files,
          rmdr_file, seekable, file_, mode, handle, handles, lis_, pre, mid,
          post, item>>

scan_vars == <<line, is_arff, attr_names, attr_lines, all_metadata_lines>>
select_args == <<col_strs_to_select, input_csv_delim, output_csv_delim, out_name>>
select_vars == <<rel_name, cols_to_select, out_file, in_rows, out_rows>>
merge_vars == <<args, first, last, add_is_arff, add_attr_lines, add_data,
                missing, stderr>>
split_vars == <<key_sets, out_files, rmdr_file>>
io_vars == <<seekable, file_, mode, handle, handles>>
util_vars == <<lis_, pre, mid, post, item>>

----------------------------------------------------------------------------
(* Bounds of the model. *)

MaxLead == 1      \* leading lines before the first @relation candidate
MaxBody == 2      \* lines between the @relation line and the @data line
MetaCap == 8      \* cap on len(all_metadata_lines): the read loop is unbounded
MaxRows == 2      \* data lines of the inputs given to select
MaxCols == 2      \* column specs given to select
MaxSets == 2      \* key sets (and output streams) given to split

----------------------------------------------------------------------------
(* Characters and Python string helpers. *)

NL == "\n"
WS == {" ", "\t", NL}
NoName == "NoName"
None == <<>>             \* Python's None, where an integer may stand

RECURSIVE lstrip(_)
lstrip(s) == IF s = <<>> THEN s
             ELSE IF Head(s) \in WS THEN lstrip(Tail(s)) ELSE s

RECURSIVE rstrip(_)
rstrip(s) == IF s = <<>> THEN s
             ELSE IF s[Len(s)] \in WS THEN rstrip(SubSeq(s, 1, Len(s) - 1)) ELSE s

\* str.strip()
strip(s) == rstrip(lstrip(s))

\* str.split(): the maximal runs of non-whitespace characters
RECURSIVE split_ws(_, _, _)
split_ws(s, cur, acc) ==
    IF s = <<>> THEN (IF cur = <<>> THEN acc ELSE Append(acc, cur))
    ELSE IF Head(s) \in WS
         THEN split_ws(Tail(s), <<>>, IF cur = <<>> THEN acc ELSE Append(acc, cur))
         ELSE split_ws(Tail(s), Append(cur, Head(s)), acc)

split(s) == split_ws(s, <<>>, <<>>)

\* file.readline(): the next line with its newline, "" at end of file
readline(f, p) == IF p < Len(f) THEN Append(f[p + 1], NL) ELSE <<>>

\* cursor after file.readline()
after_readline(f, p) == IF p < Len(f) THEN p + 1 ELSE p

\* in_file.seek(0)
seek_noop(p) == p
seek0(p) == 0

----------------------------------------------------------------------------
(* The regular expressions of get_metadata_if_arff. *)

kw_relation == << {"r","R"}, {"e","E"}, {"l","L"}, {"a","A"}, {"t","T"},
                  {"i","I"}, {"o","O"}, {"n","N"} >>
kw_data == << {"d","D"}, {"a","A"}, {"t","T"}, {"a","A"} >>
kw_attribute == << {"a","A"}, {"t","T"}, {"t","T"}, {"r","R"}, {"i","I"},
                   {"b","B"}, {"u","U"}, {"t","T"}, {"e","E"} >>

\* ^@[Kk][Ww]... : `s` starts with "@" followed by the keyword, any case
kw_match(s, kw) ==
    /\ Len(s) >= Len(kw) + 1
    /\ s[1] = "@"
    /\ \A i \in 1..Len(kw) : s[i + 1] \in kw[i]

\* what follows the keyword
kw_rest(s, kw) == SubSeq(s, Len(kw) + 2, Len(s))

\* r'^%'
comment(s) == Len(s) >= 1 /\ s[1] = "%"

\* r'^\s+$'
empty(s) == Len(s) >= 1 /\ \A i \in 1..Len(s) : s[i] \in WS

\* the three alternatives of the relation name, each anchored at the end
rel_unquoted(r) == /\ Len(r) >= 1
                   /\ r[1] # "'"
                   /\ \A i \in 2..Len(r) : r[i] \notin WS
rel_quoted(r, q) == /\ Len(r) >= 3
                    /\ r[1] = q
                    /\ r[2] \notin {"{", "}", ",", "%", NL}
                    /\ r[Len(r)] = q
                    /\ \A i \in 3..(Len(r) - 1) : r[i] # NL

\* r'''^@[Rr][Ee][Ll][Aa][Tt][Ii][Oo][Nn]\s*(([^']\S*)|('[^{},%].*')|("[^{},%].*"))$'''
relation(s) ==
    /\ kw_match(s, kw_relation)
    /\ LET rest == kw_rest(s, kw_relation)
       IN \E k \in 0..Len(rest) :
            /\ \A i \in 1..k : rest[i] \in WS
            /\ LET r == SubSeq(rest, k + 1, Len(rest))
               IN rel_unquoted(r) \/ rel_quoted(r, "'") \/ rel_quoted(r, "\"")

\* r'^@[Dd][Aa][Tt][Aa]'
datameta(s) == kw_match(s, kw_data)

\* r'^@[Aa][Tt][Tt][Rr][Ii][Bb][Uu][Tt][Ee]\s*(..*$)'
attribute_kw(s, kw) ==
    /\ kw_match(s, kw)
    /\ LET rest == kw_rest(s, kw)
       IN \E k \in 0..Len(rest) :
            /\ \A i \in 1..k : rest[i] \in WS
            /\ Len(rest) - k >= 1
            /\ \A i \in (k + 1)..Len(rest) : rest[i] # NL

attribute(s) == attribute_kw(s, kw_attribute)

\* line.split()[1] of an attribute line
attr_name_first(s) == split(s)[1]
attr_name(s) == split(s)[2]

----------------------------------------------------------------------------
(* The lines the input streams are built from. *)

\* '' : an empty line
L_blank == <<>>
\* '  ' : blanks only
L_spaces == <<" ", " ">>
\* '% c' : a comment
L_comment == <<"%", " ", "c">>
\* '@relation r'
L_rel == <<"@", "r", "e", "l", "a", "t", "i", "o", "n", " ", "r">>
\* "@RELATION 'r'"
L_rel_upper == <<"@", "R", "E", "L", "A", "T", "I", "O", "N", " ", "'", "r", "'">>
\* '@relation a{b' : unquoted name holding a brace
L_rel_brace == <<"@", "r", "e", "l", "a", "t", "i", "o", "n", " ", "a", "{", "b">>
\* "@relation 'a,b'" : quoted name holding a comma
L_rel_qbrace == <<"@", "r", "e", "l", "a", "t", "i", "o", "n", " ", "'", "a", ",", "b", "'">>
\* '@attribute a n'
L_attr_a == <<"@", "a", "t", "t", "r", "i", "b", "u", "t", "e", " ", "a", " ", "n">>
\* '@attribute b n'
L_attr_b == <<"@", "a", "t", "t", "r", "i", "b", "u", "t", "e", " ", "b", " ", "n">>
\* ' @ATTRIBUTE  c n ' : upper-case keyword, surrounding blanks
L_attr_pad == <<" ", "@", "A", "T", "T", "R", "I", "B", "U", "T", "E", " ", " ", "c", " ", "n", " ">>
\* '@attributex' : matches the attribute pattern, has one token
L_attr_bad == <<"@", "a", "t", "t", "r", "i", "b", "u", "t", "e", "x">>
\* '@data'
L_data == <<"@", "d", "a", "t", "a">>
\* '@DATA x' : upper-case keyword, trailing text
L_data_upper == <<"@", "D", "A", "T", "A", " ", "x">>
\* '1,2'
L_row12 == <<"1", ",", "2">>
\* '3'
L_row3 == <<"3">>
\* '"4",5' : a quoted field
L_row_quoted == <<"\"", "4", "\"", ",", "5">>


\* all sequences over S of length at most n
SeqsUpTo(S, n) == UNION { [1..k -> S] : k \in 0..n }

LeadLines == {L_blank, L_comment}
RelLines == {L_rel, L_rel_upper, L_rel_brace, L_rel_qbrace}
Spacers == {<<>>, <<L_blank>>}
BodyLines == {L_attr_a, L_attr_pad, L_attr_bad, L_spaces, L_comment}
DataMarkers == {L_data, L_data_upper}
ScanRowLines == {L_row12}

\* the streams given to the scanner: optional leading lines, an optional
\* @relation candidate, header lines (optionally set off by empty lines), an
\* optional @data line, data lines
ScanStreams ==
    { lead \o rel \o sp1 \o body \o sp2 \o dat \o rows :
        lead \in SeqsUpTo(LeadLines, MaxLead),
        rel \in SeqsUpTo(RelLines, 1),
        sp1 \in Spacers,
        body \in SeqsUpTo(BodyLines, MaxBody),
        sp2 \in Spacers,
        dat \in SeqsUpTo(DataMarkers, 1),
        rows \in SeqsUpTo(ScanRowLines, 1) }

\* the relation names a caller hands to create_metadata_rows
RelNames == { <<"r">>, <<"'", "r", "'">> }

----------------------------------------------------------------------------
(* utils.get_metadata_if_arff, step by step. *)

\* line = in_file.readline().strip()
get_metadata_ReadFirst ==
    /\ pc = "scan"
    /\ line' = strip(readline(in_file, in_pos))
    /\ in_pos' = after_readline(in_file, in_pos)
    /\ pc' = "skip"
    /\ UNCHANGED <<in_file, caller, err, is_arff, attr_names, attr_lines,
                   all_metadata_lines, next_line, select_args, io_vars, util_vars, merge_vars, split_vars, select_vars>>

\* while comment.match(line) or empty.match(line): record it, read the next
get_metadata_Skip ==
    /\ pc = "skip"
    /\ comment(line) \/ empty(line)
    /\ all_metadata_lines' = Append(all_metadata_lines, line)
    /\ line' = strip(readline(in_file, in_pos))
    /\ in_pos' = after_readline(in_file, in_pos)
    /\ UNCHANGED <<in_file, caller, pc, err, is_arff, attr_names, attr_lines,
                   next_line, select_args, io_vars, util_vars, merge_vars, split_vars, select_vars>>

\* the same, returning without a rewind on a stream that cannot seek
seek_or_return(can_seek) == IF can_seek THEN "seek" ELSE "return"

\* in_file.seek(0): a stream that cannot seek raises io.UnsupportedOperation
seek_or_raise(can_seek) == IF can_seek THEN "seek" ELSE "raise"

\* is_arff = relation.match(line) is not None; an arff records the relation
\* line, anything else rewinds the stream and returns
get_metadata_TestRelation ==
    /\ pc = "skip"
    /\ ~(comment(line) \/ empty(line))
    /\ is_arff' = relation(line)
    /\ IF relation(line)
       THEN /\ all_metadata_lines' = Append(all_metadata_lines, line)
            /\ pc' = "meta"
            /\ UNCHANGED <<in_pos, err>>
       ELSE LET outcome == seek_or_raise(seekable)
            IN /\ in_pos' = (IF outcome = "seek" THEN seek0(in_pos) ELSE in_pos)
               /\ pc' = (IF outcome = "raise" THEN "error" ELSE "returned")
               /\ err' = (IF outcome = "raise" THEN "UnsupportedOperation" ELSE err)
               /\ UNCHANGED all_metadata_lines
    /\ UNCHANGED <<in_file, caller, line, attr_names, attr_lines,
                   next_line, select_args, io_vars, util_vars, merge_vars, split_vars, select_vars>>

\* the same, going on without a name when the line has a single token
get_metadata_ReadMeta_no_name ==
    /\ pc = "meta"
    /\ ~datameta(line)
    /\ Len(all_metadata_lines) < MetaCap
    /\ LET l == strip(readline(in_file, in_pos))
       IN /\ line' = l
          /\ in_pos' = after_readline(in_file, in_pos)
          /\ all_metadata_lines' = Append(all_metadata_lines, l)
          /\ IF attribute(l)
             THEN /\ attr_lines' = Append(attr_lines, l)
                  /\ attr_names' = (IF Len(split(l)) >= 2
                                    THEN Append(attr_names, attr_name(l))
                                    ELSE attr_names)
                  /\ UNCHANGED <<pc, err>>
             ELSE UNCHANGED <<attr_lines, attr_names, pc, err>>
    /\ UNCHANGED <<in_file, caller, is_arff, next_line, select_args, io_vars,
                   util_vars, merge_vars, split_vars, select_vars>>

\* while not datameta.match(line): read a line, record it, and capture it
\* when it is an attribute line; line.split()[1] raises IndexError when the
\* line has a single token
get_metadata_ReadMeta ==
    /\ pc = "meta"
    /\ ~datameta(line)
    /\ Len(all_metadata_lines) < MetaCap
    /\ LET l == strip(readline(in_file, in_pos))
       IN /\ line' = l
          /\ in_pos' = after_readline(in_file, in_pos)
          /\ all_metadata_lines' = Append(all_metadata_lines, l)
          /\ IF attribute(l)
             THEN /\ attr_lines' = Append(attr_lines, l)
                  /\ IF Len(split(l)) >= 2
                     THEN /\ attr_names' = Append(attr_names, attr_name(l))
                          /\ UNCHANGED <<pc, err>>
                     ELSE /\ pc' = "error"
                          /\ err' = "IndexError"
                          /\ UNCHANGED attr_names
             ELSE UNCHANGED <<attr_lines, attr_names, pc, err>>
    /\ UNCHANGED <<in_file, caller, is_arff, next_line, select_args, io_vars, util_vars, merge_vars, split_vars, select_vars>>

\* the loop ends on the @data line: return
get_metadata_Return ==
    /\ pc = "meta"
    /\ datameta(line)
    /\ pc' = "returned"
    /\ UNCHANGED <<in_file, in_pos, caller, err, scan_vars, next_line,
                   select_args, io_vars, util_vars, merge_vars, split_vars, select_vars>>

\* tests/test_utils.py: next_line = arff.readline().strip()
test_ReadNextLine ==
    /\ pc = "returned"
    /\ caller = "test"
    /\ next_line' = strip(readline(in_file, in_pos))
    /\ in_pos' = after_readline(in_file, in_pos)
    /\ pc' = "read_next"
    /\ UNCHANGED <<in_file, caller, err, scan_vars, select_args, io_vars, util_vars, merge_vars, split_vars, select_vars>>

----------------------------------------------------------------------------
(* utils.create_metadata_rows *)

string_relation == <<"@", "r", "e", "l", "a", "t", "i", "o", "n", " ">>
string_data == <<"@", "d", "a", "t", "a">>

\* the same with the second empty line forgotten
create_metadata_rows_one_blank(name, lines) ==
    LET all == <<string_relation \o name, <<>>>> \o lines \o <<string_data>>
    IN [i \in 1..Len(all) |-> Append(all[i], NL)]

\* the same with the newlines forgotten
create_metadata_rows_no_newline(name, lines) ==
    <<string_relation \o name, <<>>>> \o lines \o <<<<>>, string_data>>

\* lines = ["@relation " + rel_name, ""] + attr_lines + ["", "@data"]
\* return [line + "\n" for line in lines]
create_metadata_rows(name, lines) ==
    LET all == <<string_relation \o name, <<>>>> \o lines \o <<<<>>, string_data>>
    IN [i \in 1..Len(all) |-> Append(all[i], NL)]

\* a caller re-emits the header it has just scanned:
\* out.writelines(create_metadata_rows(name, attr_lines))
emit_header ==
    /\ pc = "read_next"
    /\ caller = "test"
    /\ is_arff
    /\ \E name \in RelNames :
         /\ rel_name' = name
         /\ out_file' = out_file \o create_metadata_rows(name, attr_lines)
    /\ pc' = "done"
    /\ UNCHANGED <<in_file, in_pos, caller, err, scan_vars, next_line,
                   select_args, io_vars, util_vars, merge_vars, split_vars, cols_to_select, in_rows, out_rows>>

InitScan ==
    /\ in_file \in ScanStreams
    /\ in_pos = 0
    /\ seekable = TRUE
    /\ file_ = None
    /\ mode = "rt"
    /\ handle = None
    /\ handles = <<>>
    /\ lis_ = <<>>
    /\ pre = <<>>
    /\ mid = <<>>
    /\ post = <<>>
    /\ item = None
    /\ caller = "test"
    /\ pc = "scan"
    /\ err = "none"
    /\ line = <<>>
    /\ is_arff = FALSE
    /\ attr_names = <<>>
    /\ attr_lines = <<>>
    /\ all_metadata_lines = <<>>
    /\ next_line = <<>>
    /\ rel_name = <<>>
    /\ col_strs_to_select = <<>>
    /\ input_csv_delim = ","
    /\ output_csv_delim = ","
    /\ out_name = NoName
    /\ cols_to_select = <<>>
    /\ out_file = <<>>
    /\ in_rows = <<>>
    /\ out_rows = <<>>
    /\ args = None
    /\ first = 0
    /\ last = None
    /\ add_is_arff = FALSE
    /\ add_attr_lines = <<>>
    /\ add_data = <<>>
    /\ missing = <<>>
    /\ stderr = <<>>
    /\ key_sets = <<>>
    /\ out_files = <<>>
    /\ rmdr_file = <<>>

NextScan ==
    \/ get_metadata_ReadFirst
    \/ get_metadata_Skip
    \/ get_metadata_TestRelation
    \/ get_metadata_ReadMeta
    \/ get_metadata_Return
    \/ test_ReadNextLine
    \/ emit_header

SpecScan == InitScan /\ [][NextScan]_vars


----------------------------------------------------------------------------
(* arffselect: column resolution. *)

digit_value(c) == CASE c = "0" -> 0 [] c = "1" -> 1 [] c = "2" -> 2 [] c = "3" -> 3
                    [] c = "4" -> 4 [] c = "5" -> 5 [] c = "6" -> 6 [] c = "7" -> 7
                    [] c = "8" -> 8 [] c = "9" -> 9
Digits == {"0", "1", "2", "3", "4", "5", "6", "7", "8", "9"}

RECURSIVE digits_value(_, _)
digits_value(s, acc) ==
    IF s = <<>> THEN acc ELSE digits_value(Tail(s), 10 * acc + digit_value(Head(s)))

\* int(col_str): surrounding whitespace, an optional sign, decimal digits;
\* anything else raises ValueError
int_parse(col_str) ==
    LET t == strip(col_str)
        signed == Len(t) >= 1 /\ t[1] \in {"+", "-"}
        ds == IF signed THEN Tail(t) ELSE t
    IN IF ds # <<>> /\ \A i \in 1..Len(ds) : ds[i] \in Digits
       THEN [ok |-> TRUE,
             val |-> IF signed /\ t[1] = "-" THEN 0 - digits_value(ds, 0)
                     ELSE digits_value(ds, 0)]
       ELSE [ok |-> FALSE, val |-> 0]

\* list.index(x): 0-based position of the first element equal to x
list_index(l, x) == (CHOOSE i \in 1..Len(l) : l[i] = x /\ \A j \in 1..(i - 1) : l[j] # x) - 1

\* l[i] is defined for -len(l) <= i < len(l)
py_in_range(l, i) == (0 - Len(l)) <= i /\ i < Len(l)
py_get(l, i) == IF i >= 0 THEN l[i + 1] ELSE l[Len(l) + i + 1]

\* the same with a name that is not found resolved to -1 instead of raising
get_column_to_select_not_found(col_str, arff, names) ==
    IF int_parse(col_str).ok
    THEN [ok |-> TRUE, val |-> int_parse(col_str).val, err |-> "none"]
    ELSE IF arff /\ \E i \in 1..Len(names) : names[i] = col_str
    THEN [ok |-> TRUE, val |-> list_index(names, col_str), err |-> "none"]
    ELSE [ok |-> TRUE, val |-> 0 - 1, err |-> "none"]

\* get_column_to_select(col_str, is_arff, attr_names)
get_column_to_select(col_str, arff, names) ==
    IF int_parse(col_str).ok
    THEN [ok |-> TRUE, val |-> int_parse(col_str).val, err |-> "none"]
    ELSE IF ~arff
    THEN [ok |-> FALSE, val |-> 0, err |-> "ValueError"]
    ELSE IF \E i \in 1..Len(names) : names[i] = col_str
    THEN [ok |-> TRUE, val |-> list_index(names, col_str), err |-> "none"]
    ELSE [ok |-> FALSE, val |-> 0, err |-> "ValueError"]

\* os.path.basename
RECURSIVE basename(_)
basename(path) ==
    IF \E i \in 1..Len(path) : path[i] = "/"
    THEN basename(Tail(path)) ELSE path

known_extensions == { <<"a", "r", "f", "f">>, <<"c", "s", "v">>, <<"t", "x", "t">> }

\* re.sub(".(arff|csv|txt)$", "", filename): the dot of the pattern is not
\* escaped, it matches any character
remove_known_file_extensions(filename) ==
    IF \E e \in known_extensions :
          /\ Len(filename) >= Len(e) + 1
          /\ SubSeq(filename, Len(filename) - Len(e) + 1, Len(filename)) = e
          /\ filename[Len(filename) - Len(e)] # NL
    THEN LET e == CHOOSE e \in known_extensions :
                    /\ Len(filename) >= Len(e) + 1
                    /\ SubSeq(filename, Len(filename) - Len(e) + 1, Len(filename)) = e
         IN SubSeq(filename, 1, Len(filename) - Len(e) - 1)
    ELSE filename

string_output == <<"o", "u", "t", "p", "u", "t">>

\* name = remove_known_file_extensions(basename(out_.name))
\*            if hasattr(out_, "name") else "output"
metadata_name(name) ==
    IF name = NoName THEN string_output
    ELSE remove_known_file_extensions(basename(name))

----------------------------------------------------------------------------
(* csv.reader and csv.writer of the standard library, excel dialect with   *)
(* the given delimiter: quotechar '"', doublequote, minimal quoting.       *)

QUOTE == "\""
EOL == "EOL"      \* the end-of-line mark the reader feeds itself after a line

csv_start_field(ps, c, d) ==
    IF c \in {NL, EOL}
    THEN [state |-> IF c = EOL THEN "START_RECORD" ELSE "EAT_CRNL",
          field |-> <<>>, fields |-> Append(ps.fields, ps.field)]
    ELSE IF c = QUOTE
    THEN [ps EXCEPT !.state = "IN_QUOTED_FIELD"]
    ELSE IF c = d
    THEN [state |-> "START_FIELD", field |-> <<>>, fields |-> Append(ps.fields, ps.field)]
    ELSE [ps EXCEPT !.state = "IN_FIELD", !.field = Append(@, c)]

\* one character through the reader's state machine
csv_step(ps, c, d) ==
    CASE ps.state = "START_RECORD" ->
            IF c = EOL THEN ps
            ELSE IF c = NL THEN [ps EXCEPT !.state = "EAT_CRNL"]
            ELSE csv_start_field(ps, c, d)
      [] ps.state = "START_FIELD" -> csv_start_field(ps, c, d)
      [] ps.state = "IN_FIELD" ->
            IF c \in {NL, EOL}
            THEN [state |-> IF c = EOL THEN "START_RECORD" ELSE "EAT_CRNL",
                  field |-> <<>>, fields |-> Append(ps.fields, ps.field)]
            ELSE IF c = d
            THEN [state |-> "START_FIELD", field |-> <<>>,
                  fields |-> Append(ps.fields, ps.field)]
            ELSE [ps EXCEPT !.field = Append(@, c)]
      [] ps.state = "IN_QUOTED_FIELD" ->
            IF c = EOL THEN ps
            ELSE IF c = QUOTE THEN [ps EXCEPT !.state = "QUOTE_IN_QUOTED_FIELD"]
            ELSE [ps EXCEPT !.field = Append(@, c)]
      [] ps.state = "QUOTE_IN_QUOTED_FIELD" ->
            IF c = QUOTE
            THEN [ps EXCEPT !.state = "IN_QUOTED_FIELD", !.field = Append(@, c)]
            ELSE IF c = d
            THEN [state |-> "START_FIELD", field |-> <<>>,
                  fields |-> Append(ps.fields, ps.field)]
            ELSE IF c \in {NL, EOL}
            THEN [state |-> IF c = EOL THEN "START_RECORD" ELSE "EAT_CRNL",
                  field |-> <<>>, fields |-> Append(ps.fields, ps.field)]
            ELSE [ps EXCEPT !.state = "IN_FIELD", !.field = Append(@, c)]
      [] ps.state = "EAT_CRNL" ->
            IF c = EOL THEN [ps EXCEPT !.state = "START_RECORD"] ELSE ps

RECURSIVE csv_feed(_, _, _)
csv_feed(ps, s, d) ==
    IF s = <<>> THEN ps ELSE csv_feed(csv_step(ps, Head(s), d), Tail(s), d)

\* next(reader) with the stream at line p: lines are fed until a record is
\* complete; at the end of the stream a pending field ends the last record
RECURSIVE csv_next(_, _, _, _)
csv_next(f, p, ps, d) ==
    IF p >= Len(f)
    THEN IF ps.field # <<>> \/ ps.state = "IN_QUOTED_FIELD"
         THEN [more |-> TRUE, fields |-> Append(ps.fields, ps.field), pos |-> p]
         ELSE [more |-> FALSE, fields |-> <<>>, pos |-> p]
    ELSE LET ps2 == csv_feed(ps, f[p + 1] \o <<NL, EOL>>, d)
         IN IF ps2.state = "START_RECORD"
            THEN [more |-> TRUE, fields |-> ps2.fields, pos |-> p + 1]
            ELSE csv_next(f, p + 1, ps2, d)

csv_reader_next(f, p, d) ==
    csv_next(f, p, [state |-> "START_RECORD", field |-> <<>>, fields |-> <<>>], d)

RECURSIVE csv_double_quotes(_)
csv_double_quotes(s) ==
    IF s = <<>> THEN s
    ELSE (IF Head(s) = QUOTE THEN <<QUOTE, QUOTE>> ELSE <<Head(s)>>)
         \o csv_double_quotes(Tail(s))

\* the same with every field quoted
csv_field_quote_all(fld, d) == <<QUOTE>> \o csv_double_quotes(fld) \o <<QUOTE>>

\* a field is quoted when it holds the delimiter, the quote character or a
\* character of the line terminator
csv_field(fld, d) ==
    IF \E i \in 1..Len(fld) : fld[i] \in {d, QUOTE, NL}
    THEN <<QUOTE>> \o csv_double_quotes(fld) \o <<QUOTE>>
    ELSE fld

RECURSIVE csv_join(_, _)
csv_join(fields, d) ==
    IF fields = <<>> THEN <<>>
    ELSE IF Len(fields) = 1 THEN csv_field(fields[1], d)
    ELSE csv_field(fields[1], d) \o <<d>> \o csv_join(Tail(fields), d)

\* writer.writerow(row), lineterminator "\n"; a row of one empty field is
\* written as ""
csv_writerow(fields, d) ==
    (IF fields = << <<>> >> THEN <<QUOTE, QUOTE>> ELSE csv_join(fields, d)) \o <<NL>>

----------------------------------------------------------------------------
(* arffselect.select *)

\* output_line = [line[i] for i in cols_to_select], sorted by position
project_sorted(row, cols) ==
    LET used == {cols[j] : j \in 1..Len(cols)}
        pos == [j \in 1..Len(cols) |->
                   CHOOSE c \in used : Cardinality({x \in used : x < c}) = j - 1]
    IN IF Cardinality(used) = Len(cols)
       THEN [j \in 1..Len(cols) |-> py_get(row, pos[j])]
       ELSE [j \in 1..Len(cols) |-> py_get(row, cols[j])]

\* [line[i] for i in cols_to_select]
project(row, cols) == [j \in 1..Len(cols) |-> py_get(row, cols[j])]

\* handle_metadata_and_get_columns after its call of get_metadata_if_arff:
\* resolve the column specs (ValueError), pick the attribute lines
\* (IndexError) and write the header
handle_metadata_and_get_columns ==
    /\ pc = "returned"
    /\ caller = "select"
    /\ LET res == [j \in 1..Len(col_strs_to_select) |->
                      get_column_to_select(col_strs_to_select[j], is_arff, attr_names)]
           cols == [j \in 1..Len(res) |-> res[j].val]
       IN IF \E j \in 1..Len(res) : ~res[j].ok
          THEN /\ pc' = "error"
               /\ err' = "ValueError"
               /\ UNCHANGED <<cols_to_select, rel_name, out_file>>
          ELSE IF ~is_arff
          THEN /\ cols_to_select' = cols
               /\ pc' = "rows"
               /\ UNCHANGED <<err, rel_name, out_file>>
          ELSE IF \E j \in 1..Len(cols) : ~py_in_range(attr_lines, cols[j])
          THEN /\ pc' = "error"
               /\ err' = "IndexError"
               /\ UNCHANGED <<cols_to_select, rel_name, out_file>>
          ELSE /\ cols_to_select' = cols
               /\ rel_name' = metadata_name(out_name)
               /\ out_file' = out_file \o
                     create_metadata_rows(metadata_name(out_name), project(attr_lines, cols))
               /\ pc' = "rows"
               /\ UNCHANGED err
    /\ UNCHANGED <<in_file, in_pos, caller, scan_vars, next_line, select_args, io_vars, util_vars, merge_vars, split_vars,
                   in_rows, out_rows>>

\* for line in reader: one iteration; line[i] raises IndexError when the
\* record is too short
select_WriteRow ==
    /\ pc = "rows"
    /\ LET rec == csv_reader_next(in_file, in_pos, input_csv_delim)
       IN /\ rec.more
          /\ in_pos' = rec.pos
          /\ in_rows' = Append(in_rows, rec.fields)
          /\ IF \A j \in 1..Len(cols_to_select) : py_in_range(rec.fields, cols_to_select[j])
             THEN /\ out_rows' = Append(out_rows, project(rec.fields, cols_to_select))
                  /\ out_file' = Append(out_file,
                        csv_writerow(project(rec.fields, cols_to_select), output_csv_delim))
                  /\ UNCHANGED <<pc, err>>
             ELSE /\ pc' = "error"
                  /\ err' = "IndexError"
                  /\ UNCHANGED <<out_rows, out_file>>
    /\ UNCHANGED <<in_file, caller, scan_vars, next_line, select_args, io_vars, util_vars, merge_vars, split_vars,
                   rel_name, cols_to_select>>

\* the reader is exhausted: select returns
select_Done ==
    /\ pc = "rows"
    /\ ~csv_reader_next(in_file, in_pos, input_csv_delim).more
    /\ pc' = "done"
    /\ UNCHANGED <<in_file, in_pos, caller, err, scan_vars, next_line,
                   select_args, io_vars, util_vars, merge_vars, split_vars, select_vars>>

\* the inputs given to select
empty_rel_name == <<>>
canonical_header(attrs) == <<L_rel, L_blank>> \o attrs \o <<L_blank, L_data>>
compact_header(attrs) == <<L_comment, L_rel_upper>> \o attrs \o <<L_data_upper>>

SelectHeaders ==
    { <<>>,
      canonical_header(<<L_attr_a, L_attr_b>>),
      compact_header(<<L_attr_a, L_attr_b>>),
      canonical_header(<<L_attr_b>>) }

SelectRowLines == {L_row12, L_row3, L_row_quoted}

SelectStreams ==
    { h \o rows : h \in SelectHeaders, rows \in SeqsUpTo(SelectRowLines, MaxRows) }

ColSpecs == { <<"0">>, <<"1">>, <<"-", "1">>, <<"b">> }

out_path == <<"d", "/", "r", ".", "a", "r", "f", "f">>

\* (input delimiter, output delimiter, name of the output stream)
SelectCalls == { <<",", ",", NoName>>, <<",", ";", NoName>>, <<";", ",", out_path>> }

InitSelect ==
    /\ in_file \in SelectStreams
    /\ in_pos = 0
    /\ seekable = TRUE
    /\ file_ = None
    /\ mode = "rt"
    /\ handle = None
    /\ handles = <<>>
    /\ lis_ = <<>>
    /\ pre = <<>>
    /\ mid = <<>>
    /\ post = <<>>
    /\ item = None
    /\ caller = "select"
    /\ pc = "scan"
    /\ err = "none"
    /\ line = <<>>
    /\ is_arff = FALSE
    /\ attr_names = <<>>
    /\ attr_lines = <<>>
    /\ all_metadata_lines = <<>>
    /\ next_line = <<>>
    /\ rel_name = empty_rel_name
    /\ col_strs_to_select \in SeqsUpTo(ColSpecs, MaxCols)
    /\ \E call \in SelectCalls :
          /\ input_csv_delim = call[1]
          /\ output_csv_delim = call[2]
          /\ out_name = call[3]
    /\ cols_to_select = <<>>
    /\ out_file = <<>>
    /\ in_rows = <<>>
    /\ out_rows = <<>>
    /\ args = None
    /\ first = 0
    /\ last = None
    /\ add_is_arff = FALSE
    /\ add_attr_lines = <<>>
    /\ add_data = <<>>
    /\ missing = <<>>
    /\ stderr = <<>>
    /\ key_sets = <<>>
    /\ out_files = <<>>
    /\ rmdr_file = <<>>

NextSelect ==
    \/ get_metadata_ReadFirst
    \/ get_metadata_Skip
    \/ get_metadata_TestRelation
    \/ get_metadata_ReadMeta
    \/ get_metadata_Return
    \/ handle_metadata_and_get_columns
    \/ select_WriteRow
    \/ select_Done

SpecSelect == InitSelect /\ [][NextSelect]_vars

----------------------------------------------------------------------------
(* What the claims say about a stream, stated on the stream itself. *)

\* a line that is empty or holds only whitespace
blank_line(l) == \A i \in 1..Len(l) : l[i] \in WS

\* a line that begins with "%"
comment_line(l) == Len(l) >= 1 /\ l[1] = "%"

\* a line that is neither
substantive(l) == ~blank_line(l) /\ ~comment_line(l)

\* the first index at or after lo whose line satisfies P, 0 when there is none
first_index(f, lo, P(_)) ==
    IF \E i \in lo..Len(f) : P(f[i])
    THEN CHOOSE i \in lo..Len(f) : P(f[i]) /\ \A j \in lo..(i - 1) : ~P(f[j])
    ELSE 0

FirstSubstantive(f) == first_index(f, 1, substantive)

is_relation_line(l) == relation(strip(l))
is_data_line(l) == datameta(strip(l))

\* index of the @relation line and of the first @data line after it
RelationIndex(f) == first_index(f, 1, is_relation_line)
DataIndex(f, r) == first_index(f, r + 1, is_data_line)

\* `@attribute <rest>`, keyword in any case
is_attribute_decl(l) ==
    /\ Len(l) >= 11
    /\ l[1] = "@"
    /\ <<l[2], l[3], l[4], l[5], l[6], l[7], l[8], l[9], l[10]>> \in
         {"a","A"} \X {"t","T"} \X {"t","T"} \X {"r","R"} \X {"i","I"} \X
         {"b","B"} \X {"u","U"} \X {"t","T"} \X {"e","E"}

\* the header lines strictly between the @relation line and the @data line,
\* without their surrounding whitespace
HeaderBody(f) ==
    LET r == RelationIndex(f)
        d == DataIndex(f, r)
    IN [i \in 1..(d - r - 1) |-> strip(f[r + i])]

ExpectedAttrLines(f) == SelectSeq(HeaderBody(f), is_attribute_decl)

\* the input lines 1..d as they stand in the stream, newline included
RawHeader(f, d) == [i \in 1..d |-> Append(f[i], NL)]

\* C1: after a scan of an ARFF stream (the first substantive line matches
\* @relation and an @data line follows) the cursor sits right after the
\* @data line, the next line read is the first data row, and
\* all_metadata_lines holds the lines from the start through the @data line.
C1_CursorAfterData ==
    LET r == FirstSubstantive(in_file)
        d == IF r > 0 THEN DataIndex(in_file, r) ELSE 0
    IN (pc \in {"returned", "read_next"} /\ r > 0 /\ is_relation_line(in_file[r]) /\ d > 0) =>
          /\ all_metadata_lines = [i \in 1..d |-> strip(in_file[i])]
          /\ pc = "returned" => in_pos = d
          /\ pc = "read_next" => next_line = strip(readline(in_file, d))

\* C2: on a non-ARFF stream the scan returns is_arff = false with no
\* attribute names or lines and leaves the stream at offset 0, so the next
\* line read is the first line of the stream.
C2_NonArffRewinds ==
    LET r == FirstSubstantive(in_file)
        non_arff == ~is_arff \/ r = 0 \/ ~is_relation_line(in_file[r])
    IN (pc \in {"returned", "read_next"} /\ non_arff) =>
          /\ ~is_arff
          /\ attr_names = <<>>
          /\ attr_lines = <<>>
          /\ pc = "returned" => in_pos = 0
          /\ pc = "read_next" =>
                /\ next_line = (IF in_file = <<>> THEN <<>> ELSE strip(in_file[1]))
                /\ in_pos = (IF in_file = <<>> THEN 0 ELSE 1)

\* lines were consumed (a comment was skipped) before the rewind
C2_Witness ==
    /\ pc = "read_next"
    /\ ~is_arff
    /\ all_metadata_lines # <<>>
    /\ Len(in_file) >= 2
    /\ next_line = in_file[1]
    /\ next_line # <<>>

C4_LeadingBlankSkipped ==
    LET r == FirstSubstantive(in_file)
    IN pc = "returned" =>
          /\ is_arff = (r > 0 /\ is_relation_line(in_file[r]))
          /\ r > 0 => /\ Len(all_metadata_lines) >= r - 1
                      /\ SubSeq(all_metadata_lines, 1, r - 1) =
                            [i \in 1..(r - 1) |-> strip(in_file[i])]

\* the relation pattern as the claim words it: the keyword in any case, then
\* an unquoted token without { } , % or a quoted string without them
claim_bad_chars == {"{", "}", ",", "%"}
claim_relation(l) ==
    /\ kw_match(l, kw_relation)
    /\ LET name == lstrip(kw_rest(l, kw_relation))
           n == Len(name)
       IN /\ n >= 1
          /\ \/ /\ name[1] \notin {"'", "\""}
                /\ \A i \in 1..n : name[i] \notin WS \cup claim_bad_chars
             \/ /\ n >= 2
                /\ name[1] \in {"'", "\""}
                /\ name[n] = name[1]
                /\ \A i \in 2..(n - 1) : name[i] \notin claim_bad_chars

\* C5: is_arff is true exactly when the first substantive line is
\* `@relation <name>` with a name of the claimed form.  Stated for the
\* streams in which no blank line precedes that line (C4 is about those).
C5_RelationPattern ==
    LET r == FirstSubstantive(in_file)
    IN (pc = "returned" /\ \A i \in 1..Len(in_file) : i < r => ~blank_line(in_file[i])) =>
          is_arff = (r > 0 /\ claim_relation(strip(in_file[r])))

\* the relation name of the input's @relation line
InputRelationName(f) == lstrip(kw_rest(strip(f[RelationIndex(f)]), kw_relation))

\* C6 as stated: for every ARFF input, re-emitting the scanned attribute
\* lines under the same relation name reproduces the input header.
C6_RoundTripAnyHeader ==
    (pc = "done" /\ InputRelationName(in_file) = rel_name) =>
        out_file = RawHeader(in_file, DataIndex(in_file, RelationIndex(in_file)))

\* a header in the layout create_metadata_rows writes: `@relation <name>`,
\* an empty line, attribute declarations, an empty line, `@data`
canonical(f, name) ==
    /\ Len(f) >= 4
    /\ f[1] = string_relation \o name
    /\ is_relation_line(f[1])
    /\ f[2] = <<>>
    /\ LET d == DataIndex(f, 1)
       IN /\ d >= 4
          /\ f[d] = string_data
          /\ f[d - 1] = <<>>
          /\ \A i \in 3..(d - 2) :
                /\ is_attribute_decl(f[i])
                /\ strip(f[i]) = f[i]
                /\ Len(split(f[i])) >= 2

\* C6 amended: the round trip holds for headers in that layout.
C6_RoundTripCanonical ==
    /\ (\E n \in RelNames : canonical(in_file, n)) => err = "none"
    /\ (pc = "done" /\ canonical(in_file, rel_name)) =>
          out_file = RawHeader(in_file, DataIndex(in_file, 1))

C6_Witness ==
    /\ pc = "done"
    /\ canonical(in_file, rel_name)
    /\ Len(attr_lines) = 2
    /\ Len(out_file) = 6

\* C7: create_metadata_rows returns len(attr_lines) + 4 lines: the relation
\* line, an empty line, the attribute lines in order, an empty line, @data,
\* each ending in a newline; the list it was given is unchanged.
C7_MetadataRowsShape ==
    pc = "done" =>
        LET n == Len(attr_lines)
        IN /\ Len(out_file) = n + 4
           /\ out_file[1] = <<"@","r","e","l","a","t","i","o","n"," ">> \o rel_name \o <<NL>>
           /\ out_file[2] = <<NL>>
           /\ \A i \in 1..n : out_file[2 + i] = attr_lines[i] \o <<NL>>
           /\ out_file[n + 3] = <<NL>>
           /\ out_file[n + 4] = <<"@","d","a","t","a",NL>>
           /\ attr_lines = ExpectedAttrLines(in_file)

C7_Witness ==
    /\ pc = "done"
    /\ Len(attr_lines) = 2
    /\ attr_lines[1] # attr_lines[2]
    /\ Len(out_file) = 6
    /\ rel_name = <<"'", "r", "'">>


----------------------------------------------------------------------------
(* Select. *)

\* element i (0-based, negative from the end) of a list
at(l, i) == IF i >= 0 THEN l[i + 1] ELSE l[Len(l) + i + 1]

\* number of header lines of the input (0 for a plain csv)
HeaderLen(f) ==
    IF RelationIndex(f) = 0 THEN 0 ELSE DataIndex(f, RelationIndex(f))

\* number of lines select has written as header
OutHeaderLen == IF is_arff THEN Len(cols_to_select) + 4 ELSE 0

\* C8: the output header holds the attribute lines i1..ik in the requested
\* order, every output row is [row[i1], .., row[ik]], a column requested
\* twice appears twice, and there is one output row per source row, in order.
C8_SelectProjects ==
    LET k == Len(cols_to_select)
    IN /\ (pc \in {"rows", "done"} /\ is_arff) =>
             /\ Len(out_file) = k + 4 + Len(out_rows)
             /\ \A j \in 1..k :
                   out_file[2 + j] = at(attr_lines, cols_to_select[j]) \o <<NL>>
       /\ pc \in {"rows", "done"} =>
             /\ k = Len(col_strs_to_select)
             /\ Len(out_rows) = Len(in_rows)
             /\ \A r \in 1..Len(out_rows) :
                   /\ Len(out_rows[r]) = k
                   /\ \A j \in 1..k : out_rows[r][j] = at(in_rows[r], cols_to_select[j])
                   /\ in_rows[r] =
                        csv_reader_next(in_file, HeaderLen(in_file) + r - 1,
                                        input_csv_delim).fields
                   /\ out_file[OutHeaderLen + r] =
                        csv_writerow(out_rows[r], output_csv_delim)
       /\ pc = "done" => Len(out_rows) = Len(in_file) - HeaderLen(in_file)

\* two columns swapped, two rows
C8_Witness ==
    /\ pc = "done"
    /\ is_arff
    /\ cols_to_select = <<1, 0>>
    /\ Len(out_rows) = 2
    /\ out_rows[1] = << <<"2">>, <<"1">> >>

\* the selection is all columns in their original order
identity_selection ==
    /\ \A j \in 1..Len(cols_to_select) : cols_to_select[j] = j - 1
    /\ is_arff => Len(cols_to_select) = Len(attr_lines)
    /\ ~is_arff => \A r \in 1..Len(in_rows) : Len(in_rows[r]) = Len(cols_to_select)

\* the relation name the claim expects for the destination
expected_name ==
    IF out_name = NoName THEN <<"o", "u", "t", "p", "u", "t">> ELSE <<"r">>

\* the input header with the name of its @relation line replaced
header_renamed(f, name) ==
    LET r == RelationIndex(f)
    IN [i \in 1..HeaderLen(f) |->
           IF i = r THEN SubSeq(f[i], 1, 10) \o name \o <<NL>> ELSE Append(f[i], NL)]

\* C9 as stated: selecting all columns in their original order reproduces
\* every data row, and the header up to the relation name.
C9_IdentitySelect ==
    (pc = "done" /\ identity_selection) =>
        /\ SubSeq(out_file, OutHeaderLen + 1, Len(out_file)) =
              [r \in 1..(Len(in_file) - HeaderLen(in_file)) |->
                  Append(in_file[HeaderLen(in_file) + r], NL)]
        /\ is_arff =>
              SubSeq(out_file, 1, OutHeaderLen) = header_renamed(in_file, expected_name)

\* C9 amended: with equal input and output delimiters, every data row that
\* has as many fields as columns are selected and holds no quote character
\* is reproduced; a header in the layout create_metadata_rows writes is
\* reproduced up to the relation name.
C9_IdentitySelectPlain ==
    (pc \in {"rows", "done"} /\ identity_selection) =>
        /\ input_csv_delim = output_csv_delim =>
              \A r \in 1..Len(out_rows) :
                  LET l == in_file[HeaderLen(in_file) + r]
                  IN (Len(in_rows[r]) = Len(cols_to_select)
                        /\ \A i \in 1..Len(l) : l[i] # QUOTE) =>
                     out_file[OutHeaderLen + r] = Append(l, NL)
        /\ (is_arff /\ \E n \in RelNames : canonical(in_file, n)) =>
              SubSeq(out_file, 1, OutHeaderLen) = header_renamed(in_file, expected_name)

C9_Witness ==
    /\ pc = "done"
    /\ is_arff
    /\ canonical(in_file, <<"r">>)
    /\ input_csv_delim = output_csv_delim
    /\ cols_to_select = <<0, 1>>
    /\ Len(attr_lines) = 2
    /\ out_rows = << << <<"1">>, <<"2">> >>, << <<"1">>, <<"2">> >> >>
    /\ Len(out_file) = 8

\* C10 as stated: a column spec that is out of range or names an unknown
\* column makes the run fail before any data row has been written.
C10_FailsBeforeAnyRow ==
    (pc = "error" /\ caller = "select") => out_rows = <<>>

\* a spec that is a name select cannot resolve
bad_name_spec ==
    \E j \in 1..Len(col_strs_to_select) :
        /\ ~int_parse(col_strs_to_select[j]).ok
        /\ \/ ~is_arff
           \/ \A i \in 1..Len(attr_names) : attr_names[i] # col_strs_to_select[j]

\* an integer spec outside the attribute list of an arff
bad_attribute_index ==
    /\ is_arff
    /\ \E j \in 1..Len(col_strs_to_select) :
          LET v == int_parse(col_strs_to_select[j])
          IN v.ok /\ (v.val >= Len(attr_lines) \/ v.val < 0 - Len(attr_lines))

too_short(row) ==
    \E j \in 1..Len(cols_to_select) :
        cols_to_select[j] >= Len(row) \/ cols_to_select[j] < 0 - Len(row)

\* C10 amended: an unresolvable name or an index outside the attribute list
\* of an arff fails before anything is written; an index that is out of
\* range for a data row fails when that row is read, after every earlier
\* row has been written.
C10_FailsAtFirstShortRow ==
    /\ (pc \in {"rows", "done", "error"} /\ (bad_name_spec \/ bad_attribute_index)) =>
          /\ pc = "error"
          /\ out_file = <<>>
    /\ (pc = "error" /\ ~(bad_name_spec \/ bad_attribute_index)) =>
          /\ err = "IndexError"
          /\ Len(in_rows) = Len(out_rows) + 1
          /\ too_short(in_rows[Len(in_rows)])
          /\ \A r \in 1..Len(out_rows) : ~too_short(in_rows[r])
          /\ Len(out_file) = OutHeaderLen + Len(out_rows)
    /\ pc \in {"rows", "done"} => \A r \in 1..Len(in_rows) : ~too_short(in_rows[r])

\* a plain csv whose second row is too short: one row was written
C10_Witness ==
    /\ pc = "error"
    /\ err = "IndexError"
    /\ ~is_arff
    /\ Len(out_rows) = 1
    /\ Len(in_rows) = 2

----------------------------------------------------------------------------
(* arffmerge: the column range of the additional csv. *)

\* str.split(sep): the pieces between the occurrences of sep
RECURSIVE split_on(_, _, _, _)
split_on(s, sep, cur, acc) ==
    IF s = <<>> THEN Append(acc, cur)
    ELSE IF Head(s) = sep THEN split_on(Tail(s), sep, <<>>, Append(acc, cur))
    ELSE split_on(Tail(s), sep, Append(cur, Head(s)), acc)

\* the same with a name looked up before the string is tried as a number
get_column_pos_name_first(pos_str, arff, names) ==
    IF arff /\ \E i \in 1..Len(names) : names[i] = pos_str
    THEN [ok |-> TRUE, val |-> list_index(names, pos_str), err |-> "none"]
    ELSE IF int_parse(pos_str).ok
    THEN [ok |-> TRUE, val |-> int_parse(pos_str).val, err |-> "none"]
    ELSE [ok |-> FALSE, val |-> 0, err |-> "ValueError"]

\* the same with a name on a non-arff csv resolved to column 0
get_column_pos_lenient(pos_str, arff, names) ==
    IF int_parse(pos_str).ok
    THEN [ok |-> TRUE, val |-> int_parse(pos_str).val, err |-> "none"]
    ELSE IF arff /\ \E i \in 1..Len(names) : names[i] = pos_str
    THEN [ok |-> TRUE, val |-> list_index(names, pos_str), err |-> "none"]
    ELSE IF arff
    THEN [ok |-> FALSE, val |-> 0, err |-> "ValueError"]
    ELSE [ok |-> TRUE, val |-> 0, err |-> "none"]

\* get_column_pos(pos_str): int(pos_str), else the position of the name in
\* attr_names; attr_names.index raises ValueError when the name is absent
get_column_pos(pos_str, arff, names) ==
    IF int_parse(pos_str).ok
    THEN [ok |-> TRUE, val |-> int_parse(pos_str).val, err |-> "none"]
    ELSE IF ~arff
    THEN [ok |-> FALSE, val |-> 0, err |-> "ValueError"]
    ELSE IF \E i \in 1..Len(names) : names[i] = pos_str
    THEN [ok |-> TRUE, val |-> list_index(names, pos_str), err |-> "none"]
    ELSE [ok |-> FALSE, val |-> 0, err |-> "ValueError"]

\* the same with the end of the range included
parse_additional_cols_args_closed(pos_string, arff, names) ==
    LET pos_pair == split_on(pos_string, ":", <<>>, <<>>)
        one == get_column_pos(pos_pair[1], arff, names)
    IN IF ~one.ok
       THEN [ok |-> FALSE, first |-> 0, last |-> None, err |-> one.err]
       ELSE IF Len(pos_pair) = 1 \/ pos_pair[2] = <<>>
       THEN [ok |-> TRUE, first |-> one.val, last |-> None, err |-> "none"]
       ELSE LET two == get_column_pos(pos_pair[2], arff, names)
            IN IF ~two.ok
               THEN [ok |-> FALSE, first |-> 0, last |-> None, err |-> two.err]
               ELSE [ok |-> TRUE, first |-> one.val, last |-> <<two.val + 1>>, err |-> "none"]

\* parse_additional_cols_args(pos_string, is_arff, attr_names): an integer
\* end of the range is <<n>>, no end is None
parse_additional_cols_args(pos_string, arff, names) ==
    LET pos_pair == split_on(pos_string, ":", <<>>, <<>>)
        one == get_column_pos(pos_pair[1], arff, names)
    IN IF ~one.ok
       THEN [ok |-> FALSE, first |-> 0, last |-> None, err |-> one.err]
       ELSE IF Len(pos_pair) = 1 \/ pos_pair[2] = <<>>
       THEN [ok |-> TRUE, first |-> one.val, last |-> None, err |-> "none"]
       ELSE LET two == get_column_pos(pos_pair[2], arff, names)
            IN IF ~two.ok
               THEN [ok |-> FALSE, first |-> 0, last |-> None, err |-> two.err]
               ELSE [ok |-> TRUE, first |-> one.val, last |-> <<two.val>>, err |-> "none"]

\* the start of l[lo:hi] and its end, as positions 0..len(l)
slice_bound(i, n) == IF i < 0 THEN (IF i + n < 0 THEN 0 ELSE i + n)
                     ELSE (IF i > n THEN n ELSE i)

\* l[lo:hi]; hi is None or <<n>>
py_slice(l, lo, hi) ==
    LET n == Len(l)
        a == slice_bound(lo, n)
        b == IF hi = None THEN n ELSE slice_bound(hi[1], n)
    IN IF a < b THEN SubSeq(l, a + 1, b) ELSE <<>>

----------------------------------------------------------------------------
(* Column resolution on its own: the select resolver and the merge range   *)
(* resolver applied to the same spec and the same scanned header.          *)

\* the column specs given to the resolvers
ResolveSpecs ==
    { <<"0">>, <<"1">>, <<"-", "1">>, <<" ", "1">>, <<"+", "1">>, <<"1", "0">>,
      <<"a">>, <<"b">>, <<"x">>, <<>>, <<"A">>,
      <<"1", ":">>, <<"b", ":">>, <<"a", ":", "b">>, <<"1", ":", "0">>,
      <<"x", ":", "1">>, <<"1", ":", "x">>, <<":", "1">>,
      <<"0", ":", "1", ":", "1">>, <<"0", ":", ":", "1">> }

\* '@attribute <name> n'
attr_line_of(name) ==
    <<"@", "a", "t", "t", "r", "i", "b", "u", "t", "e", " ">> \o name \o <<" ", "n">>

\* the headers a scan can have returned: (is_arff, attr_names)
ResolveHeaders ==
    { <<FALSE, <<>>>>,
      <<TRUE, <<>>>>,
      <<TRUE, << <<"a">> >>>>,
      <<TRUE, << <<"a">>, <<"b">> >>>>,
      <<TRUE, << <<"b">>, <<"a">>, <<"b">> >>>>,
      <<TRUE, << <<"1">>, <<"a">> >>>> }

\* cols_to_select = [get_column_to_select(col_str, is_arff, attr_names) ...]
\* for a single column spec
select_Resolve ==
    /\ pc = "resolve"
    /\ LET res == get_column_to_select(col_strs_to_select[1], is_arff, attr_names)
       IN IF res.ok
          THEN /\ cols_to_select' = <<res.val>>
               /\ pc' = "select_resolved"
               /\ UNCHANGED err
          ELSE /\ err' = res.err
               /\ pc' = "select_error"
               /\ UNCHANGED cols_to_select
    /\ UNCHANGED <<in_file, in_pos, caller, scan_vars, next_line, select_args, io_vars, util_vars,
                   rel_name, out_file, in_rows, out_rows, merge_vars, split_vars>>

\* first, last = parse_additional_cols_args(args.add_input_position, is_arff, attr_names)
merge_Resolve ==
    /\ pc = "resolve"
    /\ LET res == parse_additional_cols_args(col_strs_to_select[1], is_arff, attr_names)
       IN IF res.ok
          THEN /\ first' = res.first
               /\ last' = res.last
               /\ pc' = "merge_resolved"
               /\ UNCHANGED err
          ELSE /\ err' = res.err
               /\ pc' = "merge_error"
               /\ UNCHANGED <<first, last>>
    /\ UNCHANGED <<in_file, in_pos, caller, scan_vars, next_line, select_args, io_vars, util_vars,
                   select_vars, args, add_is_arff, add_attr_lines, add_data,
                   missing, stderr, split_vars>>

InitResolve ==
    /\ in_file = <<>>
    /\ in_pos = 0
    /\ seekable = TRUE
    /\ file_ = None
    /\ mode = "rt"
    /\ handle = None
    /\ handles = <<>>
    /\ lis_ = <<>>
    /\ pre = <<>>
    /\ mid = <<>>
    /\ post = <<>>
    /\ item = None
    /\ caller = "resolve"
    /\ pc = "resolve"
    /\ err = "none"
    /\ line = <<>>
    /\ \E h \in ResolveHeaders :
          /\ is_arff = h[1]
          /\ attr_names = h[2]
          /\ attr_lines = [i \in 1..Len(h[2]) |-> attr_line_of(h[2][i])]
    /\ all_metadata_lines = <<>>
    /\ next_line = <<>>
    /\ rel_name = <<>>
    /\ \E c \in ResolveSpecs : col_strs_to_select = <<c>>
    /\ input_csv_delim = ","
    /\ output_csv_delim = ","
    /\ out_name = NoName
    /\ cols_to_select = <<>>
    /\ out_file = <<>>
    /\ in_rows = <<>>
    /\ out_rows = <<>>
    /\ args = None
    /\ first = 0
    /\ last = None
    /\ add_is_arff = FALSE
    /\ add_attr_lines = <<>>
    /\ add_data = <<>>
    /\ missing = <<>>
    /\ stderr = <<>>
    /\ key_sets = <<>>
    /\ out_files = <<>>
    /\ rmdr_file = <<>>

NextResolve ==
    \/ select_Resolve
    \/ merge_Resolve

SpecResolve == InitResolve /\ [][NextResolve]_vars

\* the text of a range spec before its first ":" and the text after it
\* (None when the spec has no ":")
has_colon(s) == \E i \in 1..Len(s) : s[i] = ":"
colon_index(s) == CHOOSE i \in 1..Len(s) : s[i] = ":" /\ \A j \in 1..(i - 1) : s[j] # ":"
text_before(s) == IF has_colon(s) THEN SubSeq(s, 1, colon_index(s) - 1) ELSE s
text_after(s) == IF has_colon(s) THEN SubSeq(s, colon_index(s) + 1, Len(s)) ELSE <<>>
colons(s) == Cardinality({i \in 1..Len(s) : s[i] = ":"})

\* the spec reads as an integer
numeric(s) == int_parse(s).ok

\* some attribute is named s
named(s) == \E i \in 1..Len(attr_names) : attr_names[i] = s

\* v is what the claim says a spec s resolves to
resolves_to(s, v) ==
    IF numeric(s) THEN v = int_parse(s).val
    ELSE /\ is_arff
         /\ 0 <= v /\ v < Len(attr_names)
         /\ attr_names[v + 1] = s

\* the spec under resolution
the_spec == col_strs_to_select[1]

\* C11: a spec that parses as an integer resolves to that integer, for arff
\* and plain csv alike; any other spec resolves, on an arff, to the position
\* of the attribute of exactly that name.  Both resolvers.
C11_ResolvesToIndex ==
    /\ pc \in {"select_resolved", "select_error"} =>
          /\ (numeric(the_spec) \/ (is_arff /\ named(the_spec))) =>
                pc = "select_resolved"
          /\ pc = "select_resolved" =>
                /\ Len(cols_to_select) = 1
                /\ resolves_to(the_spec, cols_to_select[1])
    /\ (pc \in {"merge_resolved", "merge_error"} /\ colons(the_spec) = 0) =>
          /\ (numeric(the_spec) \/ (is_arff /\ named(the_spec))) =>
                pc = "merge_resolved"
          /\ pc = "merge_resolved" => resolves_to(the_spec, first)
    /\ (pc = "merge_resolved" /\ colons(the_spec) = 1) =>
          /\ resolves_to(text_before(the_spec), first)
          /\ last # None => resolves_to(text_after(the_spec), last[1])

\* an attribute is named "1": the spec "1" is column 1, not that attribute
C11_Witness ==
    /\ pc = "merge_resolved"
    /\ is_arff
    /\ Len(attr_names) >= 1
    /\ attr_names[1] = <<"1">>
    /\ the_spec = <<"1">>
    /\ first = 1

\* the spec cannot be resolved: it is no integer, and the input is no arff
\* or has no attribute of that name
unresolvable(s) == ~numeric(s) /\ (~is_arff \/ ~named(s))

\* C12: a non-numeric spec fails with ValueError on a plain csv, and on an
\* arff that has no attribute of that name; no index is returned.  Both
\* resolvers.
C12_UnknownNameFails ==
    /\ (pc \in {"select_resolved", "select_error"} /\ unresolvable(the_spec)) =>
          /\ pc = "select_error"
          /\ err = "ValueError"
          /\ cols_to_select = <<>>
    /\ (pc \in {"merge_resolved", "merge_error"} /\ colons(the_spec) <= 1
           /\ \/ unresolvable(text_before(the_spec))
              \/ (text_after(the_spec) # <<>> /\ unresolvable(text_after(the_spec)))) =>
          /\ pc = "merge_error"
          /\ err = "ValueError"
          /\ first = 0 /\ last = None
    /\ pc \in {"select_error", "merge_error"} => err = "ValueError"

\* a name on a plain csv, given to the merge resolver
C12_Witness ==
    /\ pc = "merge_error"
    /\ ~is_arff
    /\ the_spec = <<"b">>
    /\ err = "ValueError"

\* C13: the range spec is cut at its first ":" only: the text before it is
\* resolved as first, all the text after it as last; with no ":" or nothing
\* after it last is None.
C13_SplitsAtFirstColon ==
    LET before == text_before(the_spec)
        after == text_after(the_spec)
    IN pc \in {"merge_resolved", "merge_error"} =>
          IF unresolvable(before) \/ (after # <<>> /\ unresolvable(after))
          THEN pc = "merge_error"
          ELSE /\ pc = "merge_resolved"
               /\ resolves_to(before, first)
               /\ after = <<>> => last = None
               /\ after # <<>> => (last # None /\ resolves_to(after, last[1]))

----------------------------------------------------------------------------
(* arffmerge: get_additional_csv and read_add_write.                       *)
(* The files are opened from the paths of the command line, as             *)
(* main_with_args does.                                                    *)

\* every record csv.reader yields from line p of f on
RECURSIVE csv_records(_, _, _)
csv_records(f, p, d) ==
    LET rec == csv_reader_next(f, p, d)
    IN IF rec.more THEN <<rec.fields>> \o csv_records(f, rec.pos, d) ELSE <<>>

\* a dict, in insertion order: a sequence of <<key, value>> with distinct keys
dict_has(dict, k) == \E i \in 1..Len(dict) : dict[i][1] = k
dict_get(dict, k) == dict[CHOOSE i \in 1..Len(dict) : dict[i][1] = k][2]

\* the same with a key already present keeping its value
dict_put_keep_first(dict, k, v) ==
    IF dict_has(dict, k) THEN dict ELSE Append(dict, <<k, v>>)

\* dict[k] = v: a key already present keeps its place and takes the new value
dict_put(dict, k, v) ==
    IF dict_has(dict, k)
    THEN [i \in 1..Len(dict) |-> IF dict[i][1] = k THEN <<k, v>> ELSE dict[i]]
    ELSE Append(dict, <<k, v>>)

\* {line[key_col]: line[first:last] for line in csv.reader(add_file, ...)}
RECURSIVE dict_of_rows(_, _, _, _, _)
dict_of_rows(rows, key_col, lo, hi, acc) ==
    IF rows = <<>> THEN acc
    ELSE dict_of_rows(Tail(rows), key_col, lo, hi,
                      dict_put(acc, py_get(Head(rows), key_col), py_slice(Head(rows), lo, hi)))

\* re.sub(".(arff|csv|txt)$", "", filename) of arffmerge and arffsplit
remove_known_extensions(filename) ==
    IF \E e \in known_extensions :
          /\ Len(filename) >= Len(e) + 1
          /\ SubSeq(filename, Len(filename) - Len(e) + 1, Len(filename)) = e
          /\ filename[Len(filename) - Len(e)] # NL
    THEN LET e == CHOOSE e \in known_extensions :
                    /\ Len(filename) >= Len(e) + 1
                    /\ SubSeq(filename, Len(filename) - Len(e) + 1, Len(filename)) = e
         IN SubSeq(filename, 1, Len(filename) - Len(e) - 1)
    ELSE filename

\* the two warnings merge prints to sys.stderr
warning_hand_edit == [warning |-> "hand-edit the metadata", key |-> <<>>]
warning_missing_key(k) == [warning |-> "no additional data row", key |-> k]

\* get_data_width: len(list(dict_of_lists.values())[0]); IndexError when the
\* dict is empty
get_data_width(dict_of_lists) ==
    IF dict_of_lists = <<>> THEN [ok |-> FALSE, val |-> 0]
    ELSE [ok |-> TRUE, val |-> Len(dict_of_lists[1][2])]

\* l[:pos] + seg + l[pos:]
splice(l, pos, seg) == py_slice(l, 0, <<pos>>) \o seg \o py_slice(l, pos, None)

\* get_additional_csv after its call of get_metadata_if_arff: resolve the
\* range, keep the attribute lines of the range and read the rows into a dict
get_additional_csv ==
    /\ pc = "returned"
    /\ caller = "get_additional_csv"
    /\ LET res == parse_additional_cols_args(args.add_input_position, is_arff, attr_names)
           rows == csv_records(in_file, in_pos, args.add_csv_delim)
       IN IF ~res.ok
          THEN /\ pc' = "error"
               /\ err' = res.err
               /\ UNCHANGED <<first, last, add_is_arff, add_attr_lines, add_data, in_pos>>
          ELSE /\ first' = res.first
               /\ last' = res.last
               /\ add_is_arff' = is_arff
               /\ in_pos' = Len(in_file)
               /\ IF \E r \in 1..Len(rows) : ~py_in_range(rows[r], args.add_key_col)
                  THEN /\ pc' = "error"
                       /\ err' = "IndexError"
                       /\ UNCHANGED <<add_attr_lines, add_data>>
                  ELSE /\ add_attr_lines' = py_slice(attr_lines, res.first, res.last)
                       /\ add_data' = dict_of_rows(rows, args.add_key_col,
                                                   res.first, res.last, <<>>)
                       /\ pc' = "read_add_write"
                       /\ UNCHANGED err
    /\ UNCHANGED <<in_file, caller, scan_vars, next_line, select_args, io_vars, util_vars, select_vars,
                   args, missing, stderr, split_vars>>

\* read_add_write: open the main csv and the output, and call
\* handle_arff_headers, which scans the main csv
read_add_write_Open ==
    /\ pc = "read_add_write"
    /\ in_file' = args.main_csv
    /\ in_pos' = 0
    /\ out_name' = args.output_csv
    /\ out_file' = <<>>
    /\ caller' = "handle_arff_headers"
    /\ pc' = "scan"
    /\ line' = <<>>
    /\ is_arff' = FALSE
    /\ attr_names' = <<>>
    /\ attr_lines' = <<>>
    /\ all_metadata_lines' = <<>>
    /\ UNCHANGED <<err, next_line, rel_name, col_strs_to_select, input_csv_delim,
                   output_csv_delim, cols_to_select, in_rows, out_rows,
                   merge_vars, split_vars, io_vars, util_vars>>

\* handle_arff_headers after its call of get_metadata_if_arff: splice the
\* additional attribute lines in, or warn, and write the metadata rows
handle_arff_headers ==
    /\ pc = "returned"
    /\ caller = "handle_arff_headers"
    /\ LET both == attr_lines # <<>> /\ add_attr_lines # <<>>
           lines == IF both
                    THEN splice(attr_lines, args.output_position, add_attr_lines)
                    ELSE attr_lines
           name == remove_known_extensions(basename(out_name))
       IN /\ stderr' = IF both THEN stderr ELSE Append(stderr, warning_hand_edit)
          /\ rel_name' = name
          /\ out_file' = out_file \o create_metadata_rows(name, lines)
    /\ pc' = "missing"
    /\ UNCHANGED <<in_file, in_pos, caller, err, scan_vars, next_line, select_args, io_vars, util_vars,
                   cols_to_select, in_rows, out_rows, args, first, last,
                   add_is_arff, add_attr_lines, add_data, missing, split_vars>>

\* missing = (['?'] if is_arff else ['']) * get_data_width(add_data)
read_add_write_Missing ==
    /\ pc = "missing"
    /\ LET width == get_data_width(add_data)
       IN IF width.ok
          THEN /\ missing' = [i \in 1..width.val |-> IF is_arff THEN <<"?">> ELSE <<>>]
               /\ pc' = "merge_rows"
               /\ UNCHANGED err
          ELSE /\ pc' = "error"
               /\ err' = "IndexError"
               /\ UNCHANGED missing
    /\ UNCHANGED <<in_file, in_pos, caller, scan_vars, next_line, select_args, io_vars, util_vars,
                   select_vars, args, first, last, add_is_arff, add_attr_lines,
                   add_data, stderr, split_vars>>

\* for line in reader: one iteration
read_add_write_Row ==
    /\ pc = "merge_rows"
    /\ LET rec == csv_reader_next(in_file, in_pos, args.main_csv_delim)
       IN /\ rec.more
          /\ in_pos' = rec.pos
          /\ in_rows' = Append(in_rows, rec.fields)
          /\ IF ~py_in_range(rec.fields, args.main_key_col)
             THEN /\ pc' = "error"
                  /\ err' = "IndexError"
                  /\ UNCHANGED <<out_rows, out_file, stderr>>
             ELSE LET inv_id == py_get(rec.fields, args.main_key_col)
                      hit == dict_has(add_data, inv_id)
                      line_to_add == IF hit THEN dict_get(add_data, inv_id) ELSE missing
                      output_line == splice(rec.fields, args.output_position, line_to_add)
                  IN /\ stderr' = IF hit THEN stderr
                                  ELSE Append(stderr, warning_missing_key(inv_id))
                     /\ out_rows' = Append(out_rows, output_line)
                     /\ out_file' = Append(out_file,
                                           csv_writerow(output_line, args.output_csv_delim))
                     /\ UNCHANGED <<pc, err>>
    /\ UNCHANGED <<in_file, caller, scan_vars, next_line, select_args, io_vars, util_vars, rel_name,
                   cols_to_select, args, first, last, add_is_arff, add_attr_lines,
                   add_data, missing, split_vars>>

\* the reader is exhausted: read_add_write returns
read_add_write_Done ==
    /\ pc = "merge_rows"
    /\ ~csv_reader_next(in_file, in_pos, args.main_csv_delim).more
    /\ pc' = "done"
    /\ UNCHANGED <<in_file, in_pos, caller, err, scan_vars, next_line, select_args, io_vars, util_vars,
                   select_vars, merge_vars, split_vars>>

\* the files given to merge
\* '1,7'
L_row17 == <<"1", ",", "7">>
\* '3,7,8'
L_row378 == <<"3", ",", "7", ",", "8">>

merge_header(attrs) == <<L_rel>> \o attrs \o <<L_data>>

MainHeaders == { <<>>, merge_header(<<L_attr_a, L_attr_b>>), merge_header(<<>>) }
MainRowLines == { L_row12, L_row3 }
MainFiles == { h \o rows : h \in MainHeaders, rows \in SeqsUpTo(MainRowLines, MaxRows) }

AddHeaders == { <<>>, <<L_comment>> \o merge_header(<<L_attr_a, L_attr_b, L_attr_pad>>) }
AddBodies == { <<>>, <<L_row12>>, <<L_row3, L_row12>>, <<L_row12, L_row17>>,
               <<L_row12, L_row378>> }
AddFiles == { h \o rows : h \in AddHeaders, rows \in AddBodies }

\* --add-input-position
AddInputPositions ==
    { <<"1">>, <<"1", ":">>, <<"b">>, <<"a", ":", "b">>, <<"x">>,
      <<"1", ":", "2">>, <<"b", ":", "c">>, <<"0", ":", "2">> }

\* --output-position: the default and the front of the row
OutputPositions == { 0 - 1, 0 }

output_csv_path == <<"d", "/", "o", "u", "t", ".", "a", "r", "f", "f">>

InitMerge ==
    /\ \E m \in MainFiles, a \in AddFiles, i \in AddInputPositions, o \in OutputPositions :
          args = [main_csv |-> m, add_cols_csv |-> a, output_csv |-> output_csv_path,
                  output_position |-> o, add_input_position |-> i,
                  main_csv_delim |-> ",", add_csv_delim |-> ",",
                  output_csv_delim |-> ",", main_key_col |-> 0, add_key_col |-> 0]
    /\ in_file = args.add_cols_csv
    /\ in_pos = 0
    /\ seekable = TRUE
    /\ file_ = None
    /\ mode = "rt"
    /\ handle = None
    /\ handles = <<>>
    /\ lis_ = <<>>
    /\ pre = <<>>
    /\ mid = <<>>
    /\ post = <<>>
    /\ item = None
    /\ caller = "get_additional_csv"
    /\ pc = "scan"
    /\ err = "none"
    /\ line = <<>>
    /\ is_arff = FALSE
    /\ attr_names = <<>>
    /\ attr_lines = <<>>
    /\ all_metadata_lines = <<>>
    /\ next_line = <<>>
    /\ rel_name = <<>>
    /\ col_strs_to_select = <<>>
    /\ input_csv_delim = ","
    /\ output_csv_delim = ","
    /\ out_name = NoName
    /\ cols_to_select = <<>>
    /\ out_file = <<>>
    /\ in_rows = <<>>
    /\ out_rows = <<>>
    /\ first = 0
    /\ last = None
    /\ add_is_arff = FALSE
    /\ add_attr_lines = <<>>
    /\ add_data = <<>>
    /\ missing = <<>>
    /\ stderr = <<>>
    /\ key_sets = <<>>
    /\ out_files = <<>>
    /\ rmdr_file = <<>>

NextMerge ==
    \/ get_metadata_ReadFirst
    \/ get_metadata_Skip
    \/ get_metadata_TestRelation
    \/ get_metadata_ReadMeta
    \/ get_metadata_Return
    \/ get_additional_csv
    \/ read_add_write_Open
    \/ handle_arff_headers
    \/ read_add_write_Missing
    \/ read_add_write_Row
    \/ read_add_write_Done

SpecMerge == InitMerge /\ [][NextMerge]_vars

----------------------------------------------------------------------------
(* Merge: what the claims say, stated on the files of the command line.    *)

\* the data rows of a file, as csv records
DataRows(f, d) == csv_records(f, HeaderLen(f), d)
PrimaryRows == DataRows(args.main_csv, args.main_csv_delim)
AuxRows == DataRows(args.add_cols_csv, args.add_csv_delim)

\* the keys of the auxiliary mapping
AuxKeys == { at(AuxRows[r], args.add_key_col) : r \in 1..Len(AuxRows) }

\* the key of a primary row
primary_key(row) == at(row, args.main_key_col)
key_absent(row) == primary_key(row) \notin AuxKeys

\* read_add_write has been entered and has come to rest
merge_ended == caller = "handle_arff_headers" /\ pc \in {"done", "error"}

\* the header has been written
header_written == caller = "handle_arff_headers"
                     /\ pc \in {"missing", "merge_rows", "done", "error"}

\* the segment that was spliced into row to give out, and where
spliced_width(row, out) == Len(out) - Len(row)
spliced_segment(row, out) ==
    LET k == Len(py_slice(row, 0, <<args.output_position>>))
    IN SubSeq(out, k + 1, k + spliced_width(row, out))
is_spliced(row, out) ==
    /\ Len(out) >= Len(row)
    /\ out = py_slice(row, 0, <<args.output_position>>) \o spliced_segment(row, out)
                \o py_slice(row, args.output_position, None)

\* C14: every output row is as wide as its primary row plus the width of
\* the import range, one width for the whole run, on a hit and on a miss.
C14_UniformWidth ==
    \A r, q \in 1..Len(out_rows) :
        spliced_width(in_rows[r], out_rows[r]) = spliced_width(in_rows[q], out_rows[q])

\* the placeholder of the claim: "?" for an arff output, "" otherwise
placeholder == IF is_arff THEN <<"?">> ELSE <<>>

\* C15: a primary row whose key is absent from the auxiliary mapping never
\* aborts the run: the row is emitted with a placeholder segment at the
\* insertion position and a warning names its key; also for an empty mapping.
C15_MissingKeyNeverAborts ==
    merge_ended =>
        \A r \in 1..Len(PrimaryRows) :
            key_absent(PrimaryRows[r]) =>
                /\ Len(out_rows) >= r
                /\ is_spliced(PrimaryRows[r], out_rows[r])
                /\ \A i \in 1..spliced_width(PrimaryRows[r], out_rows[r]) :
                      spliced_segment(PrimaryRows[r], out_rows[r])[i] = placeholder
                /\ \E w \in 1..Len(stderr) :
                      stderr[w] = warning_missing_key(primary_key(PrimaryRows[r]))

\* the warnings about missing keys, in the order they were printed
missing_key_warnings == SelectSeq(stderr, LAMBDA w : w # warning_hand_edit)

\* C16: one output row per primary row, in primary order; a missing-key
\* warning for exactly the primary rows whose key is absent from the
\* auxiliary mapping, and none for auxiliary keys no primary row uses.
C16_OneRowPerPrimaryRow ==
    merge_ended =>
        /\ Len(out_rows) = Len(PrimaryRows)
        /\ \A r \in 1..Len(PrimaryRows) : is_spliced(PrimaryRows[r], out_rows[r])
        /\ LET absent == SelectSeq(PrimaryRows, key_absent)
           IN missing_key_warnings =
                 [i \in 1..Len(absent) |-> warning_missing_key(primary_key(absent[i]))]

\* the attribute lines of the header merge has written
OutAttrLines ==
    LET h == Len(out_file) - Len(out_rows)
    IN [i \in 1..(h - 4) |-> SubSeq(out_file[2 + i], 1, Len(out_file[2 + i]) - 1)]

\* the attribute lines of the auxiliary file that the import range selects
AuxSelectedAttrLines == py_slice(ExpectedAttrLines(args.add_cols_csv), first, last)

\* C17: with an arff primary and an arff auxiliary the output header holds
\* the primary's attribute lines with the auxiliary's selected attribute
\* lines spliced in at the insertion position, where the imported values
\* are spliced into the data rows.
C17_HeaderSpliced ==
    (header_written /\ is_arff /\ add_is_arff) =>
        /\ OutAttrLines =
              py_slice(ExpectedAttrLines(args.main_csv), 0, <<args.output_position>>)
                 \o AuxSelectedAttrLines
                 \o py_slice(ExpectedAttrLines(args.main_csv), args.output_position, None)
        /\ \A r \in 1..Len(out_rows) : is_spliced(in_rows[r], out_rows[r])

\* C18: when the primary or the auxiliary is no arff, a hand-edit warning
\* is printed and only the primary's header is written: exactly the
\* primary's attribute lines for an arff primary, no header line at all for
\* a plain csv primary.
C18_OnlyPrimaryHeader ==
    (header_written /\ (~is_arff \/ ~add_is_arff)) =>
        /\ \E w \in 1..Len(stderr) : stderr[w] = warning_hand_edit
        /\ is_arff => OutAttrLines = ExpectedAttrLines(args.main_csv)
        /\ ~is_arff => Len(out_file) = Len(out_rows)

----------------------------------------------------------------------------
(* arffsplit: set_up_and_do_split, with the key sets already read.  The    *)
(* streams are opened from the paths of the command line.  The progress    *)
(* marks split_file prints to standard output are left out of the state.   *)

\* the same with a row written to the first matching output only
written_to_first(key_, sets) ==
    LET all == { index \in 1..Len(sets) : key_ \in sets[index] }
    IN { index \in all : \A other \in all : index <= other }

\* the outputs a row is written to:
\* for index, key_set in enumerate(key_sets): if key_ in key_set
written_to(key_, sets) == { index \in 1..Len(sets) : key_ \in sets[index] }

\* the same with the extension kept
remove_known_extensions_kept(filename) == filename

\* rel_name = remove_known_extensions(basename(out_file.name))
split_rel_name(name) == remove_known_extensions(basename(name))

\* copy_metadata_if_arff after its call of get_metadata_if_arff: the header
\* goes to every output stream and to the remainder stream
copy_metadata_if_arff ==
    /\ pc = "returned"
    /\ caller = "copy_metadata_if_arff"
    /\ IF is_arff
       THEN /\ out_files' =
                  [i \in 1..Len(out_files) |->
                      out_files[i] \o
                         create_metadata_rows(split_rel_name(args.output_file_names[i]),
                                              attr_lines)]
            /\ rmdr_file' = rmdr_file \o
                  create_metadata_rows(split_rel_name(args.remainder_file_name), attr_lines)
       ELSE UNCHANGED <<out_files, rmdr_file>>
    /\ pc' = "split_rows"
    /\ UNCHANGED <<in_file, in_pos, caller, err, scan_vars, next_line, select_args, io_vars, util_vars,
                   select_vars, merge_vars, key_sets>>

\* split_file: one iteration of `for i, line in enumerate(reader)`
split_file_Row ==
    /\ pc = "split_rows"
    /\ LET rec == csv_reader_next(in_file, in_pos, args.delimiter)
       IN /\ rec.more
          /\ in_pos' = rec.pos
          /\ in_rows' = Append(in_rows, rec.fields)
          /\ IF ~py_in_range(rec.fields, args.key_column_in_main_csv)
             THEN /\ pc' = "error"
                  /\ err' = "IndexError"
                  /\ UNCHANGED <<out_files, rmdr_file>>
             ELSE LET key_ == py_get(rec.fields, args.key_column_in_main_csv)
                      targets == written_to(key_, key_sets)
                      text == csv_writerow(rec.fields, args.delimiter)
                  IN /\ out_files' = [i \in 1..Len(out_files) |->
                                         IF i \in targets THEN Append(out_files[i], text)
                                         ELSE out_files[i]]
                     /\ rmdr_file' = IF targets = {} THEN Append(rmdr_file, text)
                                     ELSE rmdr_file
                     /\ UNCHANGED <<pc, err>>
    /\ UNCHANGED <<in_file, caller, scan_vars, next_line, select_args, io_vars, util_vars, rel_name,
                   cols_to_select, out_file, out_rows, merge_vars, key_sets>>

\* the reader is exhausted: split_file returns
split_file_Done ==
    /\ pc = "split_rows"
    /\ ~csv_reader_next(in_file, in_pos, args.delimiter).more
    /\ pc' = "done"
    /\ UNCHANGED <<in_file, in_pos, caller, err, scan_vars, next_line, select_args, io_vars, util_vars,
                   select_vars, merge_vars, split_vars>>

\* the files given to split
SplitHeaders ==
    { <<>>, compact_header(<<L_attr_a, L_attr_b>>), canonical_header(<<L_attr_b>>) }
SplitRowLines == { L_row12, L_row3, L_row_quoted }
SplitFiles == { h \o rows : h \in SplitHeaders, rows \in SeqsUpTo(SplitRowLines, MaxRows) }

\* the key sets read from the set files: empty, one key, overlapping the other
SplitKeySets == { {}, { <<"1">> }, { <<"1">>, <<"3">> } }

DigitChars == <<"1", "2", "3", "4", "5", "6", "7", "8", "9">>

\* -o d/o1.csv d/o2.csv ...   -r rest.arff
output_file_name(i) == <<"d", "/", "o", DigitChars[i], ".", "c", "s", "v">>
remainder_file_name == <<"r", "e", "s", "t", ".", "a", "r", "f", "f">>

InitSplit ==
    /\ key_sets \in SeqsUpTo(SplitKeySets, MaxSets)
    /\ \E f \in SplitFiles, k \in {0, 1} :
          args = [file_to_split |-> f, delimiter |-> ",", key_column_in_main_csv |-> k,
                  output_file_names |-> [i \in 1..Len(key_sets) |-> output_file_name(i)],
                  remainder_file_name |-> remainder_file_name]
    /\ out_files = [i \in 1..Len(key_sets) |-> <<>>]
    /\ rmdr_file = <<>>
    /\ in_file = args.file_to_split
    /\ in_pos = 0
    /\ seekable = TRUE
    /\ file_ = None
    /\ mode = "rt"
    /\ handle = None
    /\ handles = <<>>
    /\ lis_ = <<>>
    /\ pre = <<>>
    /\ mid = <<>>
    /\ post = <<>>
    /\ item = None
    /\ caller = "copy_metadata_if_arff"
    /\ pc = "scan"
    /\ err = "none"
    /\ line = <<>>
    /\ is_arff = FALSE
    /\ attr_names = <<>>
    /\ attr_lines = <<>>
    /\ all_metadata_lines = <<>>
    /\ next_line = <<>>
    /\ rel_name = <<>>
    /\ col_strs_to_select = <<>>
    /\ input_csv_delim = ","
    /\ output_csv_delim = ","
    /\ out_name = NoName
    /\ cols_to_select = <<>>
    /\ out_file = <<>>
    /\ in_rows = <<>>
    /\ out_rows = <<>>
    /\ first = 0
    /\ last = None
    /\ add_is_arff = FALSE
    /\ add_attr_lines = <<>>
    /\ add_data = <<>>
    /\ missing = <<>>
    /\ stderr = <<>>

NextSplit ==
    \/ get_metadata_ReadFirst
    \/ get_metadata_Skip
    \/ get_metadata_TestRelation
    \/ get_metadata_ReadMeta
    \/ get_metadata_Return
    \/ copy_metadata_if_arff
    \/ split_file_Row
    \/ split_file_Done

SpecSplit == InitSplit /\ [][NextSplit]_vars

----------------------------------------------------------------------------
(* Split: what the claims say. *)

\* the rows of the source, as csv records
SourceRows == DataRows(args.file_to_split, args.delimiter)

\* the key-column value of a source row
split_key(row) == at(row, args.key_column_in_main_csv)
has_key(row) == py_in_range(row, args.key_column_in_main_csv)

\* the copy of the header has been decided and rows are being routed
splitting == caller = "copy_metadata_if_arff" /\ pc \in {"split_rows", "done", "error"}

\* the source rows routed so far: a failed run stopped at its last record
RoutedRows == IF pc = "error" THEN SubSeq(in_rows, 1, Len(in_rows) - 1) ELSE in_rows

\* number of header lines written to each stream
SplitHeaderLen == IF is_arff THEN Len(attr_lines) + 4 ELSE 0

\* the data lines of a stream
data_lines(stream) == SubSeq(stream, SplitHeaderLen + 1, Len(stream))

\* the rows as the csv writer writes them
written(rows) == [r \in 1..Len(rows) |-> csv_writerow(rows[r], args.delimiter)]

in_set(i, row) == split_key(row) \in key_sets[i]
in_no_set(row) == \A i \in 1..Len(key_sets) : split_key(row) \notin key_sets[i]

\* C19: output stream i holds, in source order, exactly the source rows
\* whose key is in key set i, the remainder exactly those whose key is in no
\* set; no row is lost and none is in an output and in the remainder.
C19_RoutesByMembership ==
    splitting =>
        /\ Len(RoutedRows) <= Len(SourceRows)
        /\ RoutedRows = SubSeq(SourceRows, 1, Len(RoutedRows))
        /\ pc = "done" => RoutedRows = SourceRows
        /\ pc = "error" => ~has_key(in_rows[Len(in_rows)])
        /\ \A r \in 1..Len(RoutedRows) : has_key(RoutedRows[r])
        /\ \A i \in 1..Len(key_sets) :
              data_lines(out_files[i]) =
                 written(SelectSeq(RoutedRows, LAMBDA row : in_set(i, row)))
        /\ data_lines(rmdr_file) = written(SelectSeq(RoutedRows, in_no_set))

\* a row went to both outputs, another to the remainder
C19_Witness ==
    /\ caller = "copy_metadata_if_arff"
    /\ pc = "done"
    /\ Len(key_sets) = 2
    /\ key_sets[1] # key_sets[2]
    /\ Len(in_rows) = 2
    /\ in_set(1, in_rows[1]) /\ in_set(2, in_rows[1])
    /\ in_no_set(in_rows[2])
    /\ Len(data_lines(out_files[1])) = 1
    /\ Len(data_lines(out_files[2])) = 1
    /\ Len(data_lines(rmdr_file)) = 1

\* every stream split writes to: the outputs, then the remainder
SplitStreams == out_files \o <<rmdr_file>>

\* C20 as stated: the header of an arff source is copied unmodified to every
\* output stream and to the remainder stream, before any data row; a source
\* that is no arff gets no header.
C20_HeaderCopiedUnmodified ==
    splitting =>
        LET d == HeaderLen(args.file_to_split)
        IN /\ is_arff =>
                 \A i \in 1..Len(SplitStreams) :
                     /\ Len(SplitStreams[i]) >= d
                     /\ SubSeq(SplitStreams[i], 1, d) = RawHeader(args.file_to_split, d)
           /\ ~is_arff =>
                 \A i \in 1..Len(SplitStreams) :
                     Len(SplitStreams[i]) <= Len(RoutedRows)

\* the relation name the amended claim expects for a stream: the base name
\* of its file without the extension
stream_rel_name(i) ==
    IF i <= Len(out_files) THEN <<"o", DigitChars[i]>> ELSE <<"r", "e", "s", "t">>

\* the header the amended claim expects in stream i
stream_header(i) ==
    << <<"@", "r", "e", "l", "a", "t", "i", "o", "n", " ">> \o stream_rel_name(i) \o <<NL>>,
       <<NL>> >>
    \o [k \in 1..Len(ExpectedAttrLines(args.file_to_split)) |->
           Append(ExpectedAttrLines(args.file_to_split)[k], NL)]
    \o << <<NL>>, <<"@", "d", "a", "t", "a", NL>> >>

\* C20 amended: when the scan reports the source as arff, every output
\* stream and the remainder stream begin, before any data row, with a header
\* of the layout create_metadata_rows writes, named after that stream's file
\* and holding the source's attribute lines in order; otherwise no header is
\* written to any of them.
C20_HeaderWrittenPerStream ==
    splitting =>
        /\ is_arff =>
              \A i \in 1..Len(SplitStreams) :
                  LET h == stream_header(i)
                      s == SplitStreams[i]
                  IN /\ Len(s) >= Len(h)
                     /\ SubSeq(s, 1, Len(h)) = h
                     /\ \A k \in (Len(h) + 1)..Len(s) :
                           \E r \in 1..Len(RoutedRows) :
                               s[k] = csv_writerow(RoutedRows[r], args.delimiter)
        /\ ~is_arff =>
              \A i \in 1..Len(SplitStreams) :
                  /\ Len(SplitStreams[i]) <= Len(RoutedRows)
                  /\ \A k \in 1..Len(SplitStreams[i]) :
                        \E r \in 1..Len(RoutedRows) :
                            SplitStreams[i][k] = csv_writerow(RoutedRows[r], args.delimiter)
        /\ (in_rows = <<>> /\ is_arff) =>
              \A i \in 1..Len(SplitStreams) : SplitStreams[i] = stream_header(i)

\* an arff source, two outputs: each stream starts with its own header and
\* data rows follow it
C20_Witness ==
    /\ caller = "copy_metadata_if_arff"
    /\ pc = "done"
    /\ is_arff
    /\ Len(out_files) = 2
    /\ Len(attr_lines) = 2
    /\ Len(out_files[1]) = 7
    /\ Len(out_files[2]) = 6
    /\ Len(rmdr_file) = 7
    /\ out_files[1][1] # out_files[2][1]

----------------------------------------------------------------------------
(* The relation name of an output: select, merge and split derive it from  *)
(* the name of the destination.                                            *)

\* name = remove_known_file_extensions(basename(out_.name)) of select
select_Name ==
    /\ pc = "name"
    /\ rel_name' = metadata_name(out_name)
    /\ caller' = "select"
    /\ pc' = "named"
    /\ UNCHANGED <<in_file, in_pos, err, scan_vars, next_line, select_args, io_vars, util_vars,
                   cols_to_select, out_file, in_rows, out_rows, merge_vars, split_vars>>

\* remove_known_extensions(basename(out_file.name)) of merge
merge_Name ==
    /\ pc = "name"
    /\ rel_name' = remove_known_extensions(basename(out_name))
    /\ caller' = "merge"
    /\ pc' = "named"
    /\ UNCHANGED <<in_file, in_pos, err, scan_vars, next_line, select_args, io_vars, util_vars,
                   cols_to_select, out_file, in_rows, out_rows, merge_vars, split_vars>>

\* rel_name = remove_known_extensions(basename(out_file.name)) of split
split_Name ==
    /\ pc = "name"
    /\ rel_name' = split_rel_name(out_name)
    /\ caller' = "split"
    /\ pc' = "named"
    /\ UNCHANGED <<in_file, in_pos, err, scan_vars, next_line, select_args, io_vars, util_vars,
                   cols_to_select, out_file, in_rows, out_rows, merge_vars, split_vars>>

\* the names of the destinations: directory, stem, the character in the
\* place of the dot, ending
NameDirs == { <<>>, <<"d", "/">> }
NameStems == { <<>>, <<"o">>, <<"o", ".", "c", "s", "v">> }
NameDots == { <<>>, <<".">>, <<"x">> }
NameEndings ==
    { <<"a", "r", "f", "f">>, <<"c", "s", "v">>, <<"t", "x", "t">>,
      <<"C", "S", "V">>, <<"c", "s">>, <<"c", "s", "v", "x">> }
DestinationNames ==
    { d \o s \o p \o e : d \in NameDirs, s \in NameStems, p \in NameDots, e \in NameEndings }
    \ { <<>> }

InitNames ==
    /\ in_file = <<>>
    /\ in_pos = 0
    /\ seekable = TRUE
    /\ file_ = None
    /\ mode = "rt"
    /\ handle = None
    /\ handles = <<>>
    /\ lis_ = <<>>
    /\ pre = <<>>
    /\ mid = <<>>
    /\ post = <<>>
    /\ item = None
    /\ caller = "name"
    /\ pc = "name"
    /\ err = "none"
    /\ line = <<>>
    /\ is_arff = TRUE
    /\ attr_names = <<>>
    /\ attr_lines = <<>>
    /\ all_metadata_lines = <<>>
    /\ next_line = <<>>
    /\ rel_name = <<>>
    /\ col_strs_to_select = <<>>
    /\ input_csv_delim = ","
    /\ output_csv_delim = ","
    /\ out_name \in DestinationNames
    /\ cols_to_select = <<>>
    /\ out_file = <<>>
    /\ in_rows = <<>>
    /\ out_rows = <<>>
    /\ args = None
    /\ first = 0
    /\ last = None
    /\ add_is_arff = FALSE
    /\ add_attr_lines = <<>>
    /\ add_data = <<>>
    /\ missing = <<>>
    /\ stderr = <<>>
    /\ key_sets = <<>>
    /\ out_files = <<>>
    /\ rmdr_file = <<>>

NextNames ==
    \/ select_Name
    \/ merge_Name
    \/ split_Name

SpecNames == InitNames /\ [][NextNames]_vars

\* the base name of a path: what follows its last "/"
BaseName(path) ==
    IF \E i \in 1..Len(path) : path[i] = "/"
    THEN LET i == CHOOSE i \in 1..Len(path) :
                     path[i] = "/" /\ \A j \in (i + 1)..Len(path) : path[j] # "/"
         IN SubSeq(path, i + 1, Len(path))
    ELSE path

\* a name ends in a literal dot followed by the extension
ends_in(name, ext) ==
    /\ Len(name) >= Len(ext) + 1
    /\ SubSeq(name, Len(name) - Len(ext), Len(name)) = <<".">> \o ext

\* the name without one trailing .arff, .csv or .txt; unchanged without one
WithoutExtension(name) ==
    IF \E ext \in { <<"a", "r", "f", "f">>, <<"c", "s", "v">>, <<"t", "x", "t">> } :
          ends_in(name, ext)
    THEN LET ext == CHOOSE ext \in { <<"a", "r", "f", "f">>, <<"c", "s", "v">>,
                                     <<"t", "x", "t">> } : ends_in(name, ext)
         IN SubSeq(name, 1, Len(name) - Len(ext) - 1)
    ELSE name

\* C21: the relation name is the base name of the destination with a single
\* trailing .arff, .csv or .txt removed; a base name that does not end in a
\* literal dot and one of the three extensions is used unchanged.
C21_LiteralDotExtension ==
    pc = "named" => rel_name = WithoutExtension(BaseName(out_name))

----------------------------------------------------------------------------
(* io.io_handler: a generator wrapped by contextlib.contextmanager.  A file *)
(* object is a record of `handles`; file_ is a path or refers to a file     *)
(* object by its position in `handles`.                                     *)

MaxWrites == 2    \* writes the body of the with-block makes

a_path(p) == [is_path |-> TRUE, path |-> p, obj |-> 0]
an_object(i) == [is_path |-> FALSE, path |-> <<>>, obj |-> i]

\* a file object as open() or the caller creates it
file_object(kind, m) == [kind |-> kind, mode |-> m, closed |-> FALSE, text |-> <<>>]

\* hasattr(file_, 'read')
has_read(f) == ~f.is_path

\* handle.close()
close(hs, h) == [hs EXCEPT ![h.obj].closed = TRUE]

\* with io_handler(file_, mode) as fh: the generator runs up to its yield;
\* open() of a path succeeds or raises
io_handler_Enter ==
    /\ pc = "with"
    /\ IF has_read(file_)
       THEN /\ handle' = file_
            /\ pc' = "body"
            /\ UNCHANGED <<handles, err>>
       ELSE \E opened \in BOOLEAN :
               IF opened
               THEN /\ handles' = Append(handles, file_object("file", mode))
                    /\ handle' = an_object(Len(handles) + 1)
                    /\ pc' = "body"
                    /\ UNCHANGED err
               ELSE /\ err' = "IOError"
                    /\ pc' = "error"
                    /\ UNCHANGED <<handles, handle>>
    /\ UNCHANGED <<in_file, in_pos, caller, scan_vars, next_line, select_args,
                   select_vars, merge_vars, split_vars, seekable, file_, mode,
                   util_vars>>

\* the body of the with-block writes to the yielded object: fh.write(text)
body_Write ==
    /\ pc = "body"
    /\ handles[handle.obj].mode \in {"w", "w+"}
    /\ Len(handles[handle.obj].text) < MaxWrites
    /\ \E text \in {"abcd", "xyz"} :
          handles' = [handles EXCEPT ![handle.obj].text = Append(@, text)]
    /\ UNCHANGED <<in_file, in_pos, caller, pc, err, scan_vars, next_line,
                   select_args, select_vars, merge_vars, split_vars, seekable,
                   file_, mode, handle, util_vars>>

\* the body ends normally: __exit__ resumes the generator
body_End ==
    /\ pc = "body"
    /\ pc' = "exit"
    /\ UNCHANGED <<in_file, in_pos, caller, err, scan_vars, next_line,
                   select_args, select_vars, merge_vars, split_vars, io_vars,
                   util_vars>>

\* the body raises: __exit__ throws the exception into the generator
body_Raise ==
    /\ pc = "body"
    /\ err' = "Exception"
    /\ pc' = "throw"
    /\ UNCHANGED <<in_file, in_pos, caller, scan_vars, next_line,
                   select_args, select_vars, merge_vars, split_vars, io_vars,
                   util_vars>>

\* the same, closing whatever it yielded
io_handler_Exit_close_any ==
    /\ pc = "exit"
    /\ handles' = close(handles, handle)
    /\ pc' = "done"
    /\ UNCHANGED <<in_file, in_pos, caller, err, scan_vars, next_line,
                   select_args, select_vars, merge_vars, split_vars, seekable,
                   file_, mode, handle, util_vars>>

\* the generator resumed after its yield:
\* if handle != file_: handle.close()
io_handler_Exit ==
    /\ pc = "exit"
    /\ IF handle # file_
       THEN handles' = close(handles, handle)
       ELSE UNCHANGED handles
    /\ pc' = "done"
    /\ UNCHANGED <<in_file, in_pos, caller, err, scan_vars, next_line,
                   select_args, select_vars, merge_vars, split_vars, seekable,
                   file_, mode, handle, util_vars>>

\* the exception is raised at the yield: the generator has no try around
\* it, the statements after the yield do not run, the exception leaves it
io_handler_Throw ==
    /\ pc = "throw"
    /\ pc' = "error"
    /\ UNCHANGED <<in_file, in_pos, caller, err, scan_vars, next_line,
                   select_args, select_vars, merge_vars, split_vars, io_vars,
                   util_vars>>

\* the paths given to io_handler
IOPaths == { <<"p">>, <<"q", ".", "t", "x", "t">> }
\* the objects the caller supplies: a file it opened, a StringIO
IOObjects ==
    { file_object("file", "rt"), file_object("file", "w"), file_object("StringIO", "w+") }

InitIO ==
    /\ \/ \E p \in IOPaths : file_ = a_path(p) /\ handles = <<>>
       \/ \E o \in IOObjects : file_ = an_object(1) /\ handles = <<o>>
    /\ mode \in {"rt", "w"}
    /\ handle = None
    /\ seekable = TRUE
    /\ caller = "io_handler"
    /\ pc = "with"
    /\ err = "none"
    /\ in_file = <<>>
    /\ in_pos = 0
    /\ line = <<>>
    /\ is_arff = FALSE
    /\ attr_names = <<>>
    /\ attr_lines = <<>>
    /\ all_metadata_lines = <<>>
    /\ next_line = <<>>
    /\ rel_name = <<>>
    /\ col_strs_to_select = <<>>
    /\ input_csv_delim = ","
    /\ output_csv_delim = ","
    /\ out_name = NoName
    /\ cols_to_select = <<>>
    /\ out_file = <<>>
    /\ in_rows = <<>>
    /\ out_rows = <<>>
    /\ args = None
    /\ first = 0
    /\ last = None
    /\ add_is_arff = FALSE
    /\ add_attr_lines = <<>>
    /\ add_data = <<>>
    /\ missing = <<>>
    /\ stderr = <<>>
    /\ key_sets = <<>>
    /\ out_files = <<>>
    /\ rmdr_file = <<>>
    /\ lis_ = <<>>
    /\ pre = <<>>
    /\ mid = <<>>
    /\ post = <<>>
    /\ item = None

NextIO ==
    \/ io_handler_Enter
    \/ body_Write
    \/ body_End
    \/ body_Raise
    \/ io_handler_Exit
    \/ io_handler_Throw

SpecIO == InitIO /\ [][NextIO]_vars

\* the with-block has been left, normally or by an exception
with_exited == caller = "io_handler" /\ pc \in {"done", "error"}

\* io_handler opened a handle itself
owns_handle == file_.is_path /\ handle # None

\* C22: a handle io_handler opened from a path is closed on every exit from
\* the with-block, after normal completion and after the body raised.
C22_OwnedHandleClosed ==
    (with_exited /\ owns_handle) => handles[handle.obj].closed

\* the object the caller supplied
supplied == handles[file_.obj]

\* C23: a file object the caller supplied is yielded as it is, io_handler
\* opens nothing else, never closes it and leaves its content alone when the
\* with-block exits.
C23_SuppliedHandleLeftOpen ==
    /\ [](caller = "io_handler" /\ ~file_.is_path =>
             /\ Len(handles) = 1
             /\ ~supplied.closed
             /\ pc # "with" => handle = file_)
    /\ [][caller = "io_handler" /\ ~file_.is_path /\ pc \in {"exit", "throw"}
             => handles' = handles]_vars

\* a StringIO written to in the with-block, after the block
C23_Witness ==
    /\ caller = "io_handler"
    /\ pc = "done"
    /\ ~file_.is_path
    /\ supplied.kind = "StringIO"
    /\ supplied.text = <<"abcd">>
    /\ ~supplied.closed
    /\ handle = file_

----------------------------------------------------------------------------
(* The scan of a stream that cannot seek (a pipe, standard input). *)

\* the streams read from a pipe
PipeRelLines == {L_rel, L_rel_brace}
PipeBodyLines == {L_attr_a, L_attr_pad, L_attr_bad, L_comment}
PipeStreams ==
    { lead \o rel \o body \o dat \o rows :
        lead \in SeqsUpTo(LeadLines, MaxLead),
        rel \in SeqsUpTo(PipeRelLines, 1),
        body \in SeqsUpTo(PipeBodyLines, MaxBody),
        dat \in SeqsUpTo(DataMarkers, 1),
        rows \in SeqsUpTo(ScanRowLines, 1) }

InitPipe ==
    /\ in_file \in PipeStreams
    /\ in_pos = 0
    /\ seekable = FALSE
    /\ caller = "test"
    /\ pc = "scan"
    /\ err = "none"
    /\ line = <<>>
    /\ is_arff = FALSE
    /\ attr_names = <<>>
    /\ attr_lines = <<>>
    /\ all_metadata_lines = <<>>
    /\ next_line = <<>>
    /\ rel_name = <<>>
    /\ col_strs_to_select = <<>>
    /\ input_csv_delim = ","
    /\ output_csv_delim = ","
    /\ out_name = NoName
    /\ cols_to_select = <<>>
    /\ out_file = <<>>
    /\ in_rows = <<>>
    /\ out_rows = <<>>
    /\ args = None
    /\ first = 0
    /\ last = None
    /\ add_is_arff = FALSE
    /\ add_attr_lines = <<>>
    /\ add_data = <<>>
    /\ missing = <<>>
    /\ stderr = <<>>
    /\ key_sets = <<>>
    /\ out_files = <<>>
    /\ rmdr_file = <<>>
    /\ file_ = None
    /\ mode = "rt"
    /\ handle = None
    /\ handles = <<>>
    /\ lis_ = <<>>
    /\ pre = <<>>
    /\ mid = <<>>
    /\ post = <<>>
    /\ item = None

NextPipe ==
    \/ get_metadata_ReadFirst
    \/ get_metadata_Skip
    \/ get_metadata_TestRelation
    \/ get_metadata_ReadMeta
    \/ get_metadata_Return
    \/ test_ReadNextLine
    \/ emit_header

SpecPipe == InitPipe /\ [][NextPipe]_vars

\* the scan has returned to its caller
scan_returned == pc \in {"returned", "read_next", "done"}

\* the scan has ended, with a result or an error
scan_ended == scan_returned \/ pc = "error"

\* C24 as stated: on a stream that cannot seek the scan ends in an error
\* whatever the content, and never returns a header.
C24_NonSeekableAlwaysFails ==
    (~seekable /\ caller = "test" /\ scan_ended) => (pc = "error" /\ err # "none")

\* the lines the scan has read when it tests for @relation: the leading
\* lines it skipped and the line it tested
lines_tested == Len(all_metadata_lines) + 1

\* C24 amended: on a stream that cannot seek the scan fails, with the error
\* seek raises and after the lines up to the tested one have been consumed,
\* exactly when it finds the stream is no arff; when the tested line matches
\* @relation it never seeks, and what it returns at the @data line is the
\* header it returns for a stream that can seek.
C24_NonSeekableFailsUnlessArff ==
    (~seekable /\ caller = "test") =>
        /\ scan_returned =>
              /\ is_arff
              /\ err = "none"
              /\ attr_lines = ExpectedAttrLines(in_file)
              /\ Len(attr_names) = Len(attr_lines)
              /\ pc = "returned" => in_pos = Len(all_metadata_lines)
        /\ (scan_ended /\ ~is_arff) =>
              /\ pc = "error"
              /\ err = "UnsupportedOperation"
              /\ ~relation(line)
              /\ in_pos = (IF lines_tested <= Len(in_file) THEN lines_tested ELSE Len(in_file))
              /\ attr_lines = <<>> /\ attr_names = <<>>
        /\ err = "UnsupportedOperation" => (pc = "error" /\ ~is_arff)

\* an arff read from a pipe: the header comes back
C24_Witness ==
    /\ ~seekable
    /\ caller = "test"
    /\ pc = "read_next"
    /\ is_arff
    /\ Len(attr_lines) = 2
    /\ next_line = L_row12

----------------------------------------------------------------------------
(* The scanner: what it returns and how it fails. *)

\* C25: every header the scan returns has as many attribute names as
\* attribute lines; for a stream that is no arff both are empty.
C25_NamesMatchLines ==
    (caller = "test" /\ scan_returned) =>
        /\ Len(attr_names) = Len(attr_lines)
        /\ ~is_arff => (attr_names = <<>> /\ attr_lines = <<>>)

\* a returned header with two attributes
C25_Witness ==
    /\ caller = "test"
    /\ seekable
    /\ pc = "returned"
    /\ is_arff
    /\ Len(attr_lines) = 2
    /\ Len(attr_names) = 2
    /\ Len(all_metadata_lines) > 4

\* the line the scan failed on matches the @attribute pattern and has no
\* second token
malformed_attribute(l) == is_attribute_decl(l) /\ Len(split(l)) < 2
failed_on_attribute ==
    /\ caller = "test"
    /\ pc = "error"
    /\ is_arff
    /\ malformed_attribute(line)

\* C26: a header line that matches the @attribute pattern and has no second
\* token makes the scan fail with a parsing error, and no header is returned.
C26_MalformedAttributeIsParseError ==
    /\ failed_on_attribute => err = "ParseError"
    /\ (caller = "test" /\ scan_returned /\ is_arff) =>
          \A i \in 1..Len(all_metadata_lines) : ~malformed_attribute(all_metadata_lines[i])

----------------------------------------------------------------------------
(* Merge: the import range and the auxiliary mapping. *)

\* get_additional_csv has returned the attribute lines and the mapping
aux_loaded ==
    \/ caller = "get_additional_csv" /\ pc = "read_add_write"
    \/ caller = "handle_arff_headers"

\* the attribute lines and names of the auxiliary file
AuxAttrLines == ExpectedAttrLines(args.add_cols_csv)
AuxAttrNames == [i \in 1..Len(AuxAttrLines) |-> split(AuxAttrLines[i])[2]]

\* an end of the range: a non-negative integer, or the name of an attribute
\* of the auxiliary file that does not read as an integer
is_position(t) == numeric(t) /\ int_parse(t).val >= 0
is_aux_name(t) == ~numeric(t) /\ add_is_arff /\ \E i \in 1..Len(AuxAttrNames) : AuxAttrNames[i] = t

\* the position an end of the range stands for: the integer, or the position
\* of the attribute of that name
AuxPosition(t) ==
    IF numeric(t) THEN int_parse(t).val
    ELSE (CHOOSE i \in 1..Len(AuxAttrNames) :
             AuxAttrNames[i] = t /\ \A j \in 1..(i - 1) : AuxAttrNames[j] # t) - 1

\* a bounded range first:last
bounded_range(s) ==
    /\ colons(s) = 1
    /\ is_position(text_before(s)) \/ is_aux_name(text_before(s))
    /\ is_position(text_after(s)) \/ is_aux_name(text_after(s))

\* the items of l at the 0-based positions f .. t-1 that l has
Columns(l, f, t) ==
    LET end == IF t < Len(l) THEN t ELSE Len(l)
    IN [k \in 1..(end - f) |-> l[f + k]]

\* C27: a bounded import range first:last is half-open: the columns and the
\* attribute lines at positions first .. last-1 are imported, column last is
\* not; an end given by an attribute name stands for the position of that
\* attribute, so a range of names imports what the range of their positions
\* imports.
C27_HalfOpenRange ==
    LET s == args.add_input_position
    IN (aux_loaded /\ bounded_range(s)) =>
          LET f == AuxPosition(text_before(s))
              t == AuxPosition(text_after(s))
              rows == AuxRows
          IN /\ first = f
             /\ last = <<t>>
             /\ add_attr_lines = Columns(AuxAttrLines, f, t)
             /\ \A r \in 1..Len(rows) : dict_has(add_data, at(rows[r], args.add_key_col))
             /\ \A i \in 1..Len(add_data) :
                   \E r \in 1..Len(rows) :
                       /\ add_data[i][1] = at(rows[r], args.add_key_col)
                       /\ add_data[i][2] = Columns(rows[r], f, t)

\* the range b:c of an arff auxiliary file with the columns a, b, c: column
\* b alone goes into the output rows and into the header
C27_Witness ==
    /\ caller = "handle_arff_headers"
    /\ pc = "done"
    /\ args.add_input_position = <<"b", ":", "c">>
    /\ add_is_arff
    /\ first = 1
    /\ last = <<2>>
    /\ add_attr_lines = <<L_attr_b>>
    /\ \E i \in 1..Len(add_data) : add_data[i] = << <<"3">>, << <<"7">> >> >>
    /\ \E r \in 1..Len(out_rows) :
          in_rows[r] = << <<"3">> >> /\ out_rows[r] = << <<"7">>, <<"3">> >>

\* the last row of the auxiliary file that has the key k
LastRow(rows, k) ==
    rows[CHOOSE r \in 1..Len(rows) :
             /\ at(rows[r], args.add_key_col) = k
             /\ \A q \in (r + 1)..Len(rows) : at(rows[q], args.add_key_col) # k]

\* the segment of the import range a row of the auxiliary file gives
segment_of(row) == py_slice(row, first, last)

\* C30: when several rows of the auxiliary file have the same key the
\* mapping keeps the segment of the last of them, every primary row with
\* that key receives that segment, and the mapping has no more keys than
\* the auxiliary file has rows.
C30_LastDuplicateWins ==
    aux_loaded =>
        LET rows == AuxRows
            keys == { at(rows[r], args.add_key_col) : r \in 1..Len(rows) }
        IN /\ Len(add_data) <= Len(rows)
           /\ Len(add_data) = Cardinality(keys)
           /\ \A i \in 1..Len(add_data) :
                 /\ add_data[i][1] \in keys
                 /\ add_data[i][2] = segment_of(LastRow(rows, add_data[i][1]))
           /\ \A r \in 1..Len(out_rows) :
                 primary_key(in_rows[r]) \in keys =>
                     /\ is_spliced(in_rows[r], out_rows[r])
                     /\ spliced_segment(in_rows[r], out_rows[r])
                           = segment_of(LastRow(rows, primary_key(in_rows[r])))
           /\ (merge_ended /\ rows # <<>>) =>
                 LET primary == PrimaryRows
                 IN (\A r \in 1..Len(primary) : py_in_range(primary[r], args.main_key_col)) =>
                       /\ pc = "done"
                       /\ in_rows = primary
                       /\ Len(out_rows) = Len(in_rows)

\* rows 1,2 and 1,7 in the auxiliary file: the primary row with key 1 gets 7
C30_Witness ==
    /\ caller = "handle_arff_headers"
    /\ pc = "done"
    /\ Len(AuxRows) = 2
    /\ AuxRows[1] = << <<"1">>, <<"2">> >>
    /\ AuxRows[2] = << <<"1">>, <<"7">> >>
    /\ add_data = << << <<"1">>, << <<"7">> >> >> >>
    /\ Len(out_rows) >= 1
    /\ in_rows[1] = << <<"1">>, <<"2">> >>
    /\ out_rows[1] = << <<"1">>, <<"7">>, <<"2">> >>

----------------------------------------------------------------------------
(* utils.split_on_condition *)

MaxItems == 4     \* items of the list given to split_on_condition

string_attribute == <<"@", "a", "t", "t", "r", "i", "b", "u", "t", "e">>

\* row.startswith("@attribute"): the condition separate_arff_headers gives
condition_func(row) ==
    /\ Len(row) >= Len(string_attribute)
    /\ SubSeq(row, 1, Len(string_attribute)) = string_attribute

\* the for loop of split_on_condition from the item at position i on:
\* in_ is the segment the loop is in
RECURSIVE split_loop(_, _, _, _, _, _)
split_loop(l, i, in_, pre_, mid_, post_) ==
    IF i > Len(l)
    THEN [ok |-> TRUE, pre |-> pre_, mid |-> mid_, post |-> post_, item |-> None]
    ELSE IF in_ = "pre"
    THEN IF condition_func(l[i])
         THEN split_loop(l, i + 1, "mid", pre_, Append(mid_, l[i]), post_)
         ELSE split_loop(l, i + 1, "pre", Append(pre_, l[i]), mid_, post_)
    ELSE IF in_ = "mid"
    THEN IF condition_func(l[i])
         THEN split_loop(l, i + 1, "mid", pre_, Append(mid_, l[i]), post_)
         ELSE split_loop(l, i + 1, "post", pre_, mid_, Append(post_, l[i]))
    ELSE IF condition_func(l[i])
         THEN [ok |-> FALSE, pre |-> pre_, mid |-> mid_, post |-> post_, item |-> <<l[i]>>]
         ELSE split_loop(l, i + 1, "post", pre_, mid_, Append(post_, l[i]))

\* the same, putting every item after the first run into post
split_on_condition_no_raise(l) ==
    LET P(x) == condition_func(x)
        a == IF \E i \in 1..Len(l) : P(l[i])
             THEN CHOOSE i \in 1..Len(l) : P(l[i]) /\ \A j \in 1..(i - 1) : ~P(l[j])
             ELSE Len(l) + 1
        b == IF \E i \in a..Len(l) : ~P(l[i])
             THEN CHOOSE i \in a..Len(l) : ~P(l[i]) /\ \A j \in a..(i - 1) : P(l[j])
             ELSE Len(l) + 1
    IN [ok |-> TRUE, pre |-> SubSeq(l, 1, a - 1), mid |-> SubSeq(l, a, b - 1),
        post |-> SubSeq(l, b, Len(l)), item |-> None]

\* split_on_condition(lis_, condition_func)
split_on_condition(l) == split_loop(l, 1, "pre", <<>>, <<>>, <<>>)

\* pre, mid, post = split_on_condition(lis_, condition_func)
split_on_condition_Call ==
    /\ pc = "call"
    /\ LET res == split_on_condition(lis_)
       IN IF res.ok
          THEN /\ pre' = res.pre
               /\ mid' = res.mid
               /\ post' = res.post
               /\ pc' = "returned"
               /\ UNCHANGED <<err, item>>
          ELSE /\ err' = "TypeError"
               /\ item' = res.item
               /\ pc' = "error"
               /\ UNCHANGED <<pre, mid, post>>
    /\ UNCHANGED <<in_file, in_pos, caller, scan_vars, next_line, select_args,
                   select_vars, merge_vars, split_vars, io_vars, lis_>>

\* the items of the lists
SplitOnItems == { L_rel, L_blank, L_attr_a, L_attr_b }

InitSplitOn ==
    /\ lis_ \in SeqsUpTo(SplitOnItems, MaxItems)
    /\ pre = <<>>
    /\ mid = <<>>
    /\ post = <<>>
    /\ item = None
    /\ caller = "split_on_condition"
    /\ pc = "call"
    /\ err = "none"
    /\ in_file = <<>>
    /\ in_pos = 0
    /\ seekable = TRUE
    /\ file_ = None
    /\ mode = "rt"
    /\ handle = None
    /\ handles = <<>>
    /\ line = <<>>
    /\ is_arff = FALSE
    /\ attr_names = <<>>
    /\ attr_lines = <<>>
    /\ all_metadata_lines = <<>>
    /\ next_line = <<>>
    /\ rel_name = <<>>
    /\ col_strs_to_select = <<>>
    /\ input_csv_delim = ","
    /\ output_csv_delim = ","
    /\ out_name = NoName
    /\ cols_to_select = <<>>
    /\ out_file = <<>>
    /\ in_rows = <<>>
    /\ out_rows = <<>>
    /\ args = None
    /\ first = 0
    /\ last = None
    /\ add_is_arff = FALSE
    /\ add_attr_lines = <<>>
    /\ add_data = <<>>
    /\ missing = <<>>
    /\ stderr = <<>>
    /\ key_sets = <<>>
    /\ out_files = <<>>
    /\ rmdr_file = <<>>

NextSplitOn == split_on_condition_Call

SpecSplitOn == InitSplitOn /\ [][NextSplitOn]_vars

\* the condition of the claim: the item is an @attribute row
cond(x) == Len(x) >= 10 /\ SubSeq(x, 1, 10) = <<"@", "a", "t", "t", "r", "i", "b", "u", "t", "e">>

\* position k of the list holds an item on which cond is true after the run
\* of true items has ended
true_after_run(l, k) ==
    /\ cond(l[k])
    /\ \E i, j \in 1..Len(l) : i < j /\ j < k /\ cond(l[i]) /\ ~cond(l[j])

\* C28: split_on_condition returns pre, mid, post that concatenate to the
\* list, cond false on the items of pre and post and true on those of mid
\* (one contiguous run); when cond is true on an item after the run has
\* ended it raises TypeError naming the first such item and returns nothing.
C28_SplitOnCondition ==
    (caller = "split_on_condition" /\ pc # "call") =>
        /\ pc = "returned" <=> ~\E k \in 1..Len(lis_) : true_after_run(lis_, k)
        /\ pc = "returned" =>
              /\ pre \o mid \o post = lis_
              /\ \A i \in 1..Len(pre) : ~cond(pre[i])
              /\ \A i \in 1..Len(mid) : cond(mid[i])
              /\ \A i \in 1..Len(post) : ~cond(post[i])
              /\ err = "none"
        /\ pc # "returned" =>
              /\ pc = "error"
              /\ err = "TypeError"
              /\ \E k \in 1..Len(lis_) :
                    /\ true_after_run(lis_, k)
                    /\ \A j \in 1..(k - 1) : ~true_after_run(lis_, j)
                    /\ item = <<lis_[k]>>
              /\ pre = <<>> /\ mid = <<>> /\ post = <<>>

\* a header split into the lines before, the attribute lines, the lines after
C28_Witness ==
    /\ caller = "split_on_condition"
    /\ pc = "returned"
    /\ pre = <<L_rel>>
    /\ mid = <<L_attr_a, L_attr_b>>
    /\ post = <<L_blank>>

----------------------------------------------------------------------------
(* Termination of the scan.  The code is sequential: a step that can be   *)
(* taken is taken.  At the end of the stream readline returns "" for ever; *)
(* the code goes on appending it, the read loop of the model stops         *)
(* recording at MetaCap lines.                                             *)

SpecScanLive == InitScan /\ [][NextScan]_vars /\ WF_vars(NextScan)

\* the scan is in one of its loops
scanning == pc \in {"scan", "skip", "meta"}

\* the read loop has read at the end of the stream (it has recorded more
\* lines than the stream holds) and goes on: every further readline returns
\* "" as well, so the loop condition stays true
reads_on_at_end ==
    /\ pc = "meta"
    /\ ~datameta(line)
    /\ in_pos = Len(in_file)
    /\ Len(all_metadata_lines) > Len(in_file)

\* C29: the scan terminates on every finite stream, also on one whose first
\* substantive line matches @relation and that ends without an @data line:
\* it leaves its loops, and it never goes on reading at the end of the
\* stream.
C29_ScanTerminates == <>(~scanning) /\ [](~reads_on_at_end)
====
